---- MODULE Spec2Model ----
(***************************************************************************)
(* Verification model of the website-judgment pipeline of the backend:     *)
(*   app/services/business_classifier.py  (classify_business)              *)
(*   app/services/content_extractor.py    (extract_business_content and    *)
(*                                         the extractors it calls)        *)
(*   app/services/website_scraper.py      (scrape_business_website)        *)
(*   app/services/gap_analyzer.py         (analyze_website_gaps)           *)
(*   app/services/template_generator_premium.py                            *)
(*                                        (generate_templates_for_business,*)
(*                                         steps 1 to 4)                   *)
(* and of the HTTP API over the database:                                 *)
(*   app/routes/businesses.py, app/routes/auth.py, app/routes/templates.py *)
(*   app/services/business_service.py                                      *)
(* Text is modelled as TLA+ strings; SubSeq, Len and \o act on them        *)
(* character by character, so substring search, case folding and the       *)
(* regular expressions of the source are computed, not assumed.            *)
(***************************************************************************)
EXTENDS Integers, Sequences, FiniteSets, TLC

(***************************************************************************)
(* Bounds of the model.                                                    *)
(***************************************************************************)
MaxTextFrags == 1
MaxHashSeed == 1
MaxMarkupFrags == 2
MaxImgFrags == 2
GallerySize == 16
MaxContactFrags == 2
MaxExtractFrags == 2
MaxPageFrags == 2
MaxGapFrags == 2
MaxAgainFrags == 1
MaxServed == 3
MaxUuid == 3
MaxTasks == 2
ImagesLimit == 15

(***************************************************************************)
(* Character-level helpers (Python str operations).                        *)
(***************************************************************************)
CharAt(s, i) == IF i >= 1 /\ i <= Len(s) THEN SubSeq(s, i, i) ELSE ""

\* chr.lower() and chr.upper() of one ASCII character
LowerOf ==
    ("A" :> "a") @@ ("B" :> "b") @@ ("C" :> "c") @@ ("D" :> "d") @@
    ("E" :> "e") @@ ("F" :> "f") @@ ("G" :> "g") @@ ("H" :> "h") @@
    ("I" :> "i") @@ ("J" :> "j") @@ ("K" :> "k") @@ ("L" :> "l") @@
    ("M" :> "m") @@ ("N" :> "n") @@ ("O" :> "o") @@ ("P" :> "p") @@
    ("Q" :> "q") @@ ("R" :> "r") @@ ("S" :> "s") @@ ("T" :> "t") @@
    ("U" :> "u") @@ ("V" :> "v") @@ ("W" :> "w") @@ ("X" :> "x") @@
    ("Y" :> "y") @@ ("Z" :> "z")

UpperOf ==
    ("a" :> "A") @@ ("b" :> "B") @@ ("c" :> "C") @@ ("d" :> "D") @@
    ("e" :> "E") @@ ("f" :> "F") @@ ("g" :> "G") @@ ("h" :> "H") @@
    ("i" :> "I") @@ ("j" :> "J") @@ ("k" :> "K") @@ ("l" :> "L") @@
    ("m" :> "M") @@ ("n" :> "N") @@ ("o" :> "O") @@ ("p" :> "P") @@
    ("q" :> "Q") @@ ("r" :> "R") @@ ("s" :> "S") @@ ("t" :> "T") @@
    ("u" :> "U") @@ ("v" :> "V") @@ ("w" :> "W") @@ ("x" :> "X") @@
    ("y" :> "Y") @@ ("z" :> "Z")

\* str.lower()
RECURSIVE lower(_)
lower(s) ==
    IF s = "" THEN ""
    ELSE IF Len(s) = 1 THEN (IF s \in DOMAIN LowerOf THEN LowerOf[s] ELSE s)
    ELSE lower(SubSeq(s, 1, Len(s) \div 2)) \o lower(SubSeq(s, Len(s) \div 2 + 1, Len(s)))

\* str.upper()
RECURSIVE upper(_)
upper(s) ==
    IF s = "" THEN ""
    ELSE IF Len(s) = 1 THEN (IF s \in DOMAIN UpperOf THEN UpperOf[s] ELSE s)
    ELSE upper(SubSeq(s, 1, Len(s) \div 2)) \o upper(SubSeq(s, Len(s) \div 2 + 1, Len(s)))

\* Python's  keyword in text  on strings
Contains(text, keyword) ==
    \E i \in 1..(Len(text) - Len(keyword) + 1) :
        SubSeq(text, i, i + Len(keyword) - 1) = keyword

SeqRange(q) == {q[i] : i \in DOMAIN q}

Min(a, b) == IF a <= b THEN a ELSE b

\* q[:n]
take(q, n) == SubSeq(q, 1, Min(n, Len(q)))

\* the strings made of exactly n fragments of the lexicon, joined by sep
RECURSIVE FragmentsOf(_, _, _)
FragmentsOf(lexicon, sep, n) ==
    IF n = 0 THEN {""}
    ELSE {IF t = "" THEN f ELSE t \o sep \o f :
              t \in FragmentsOf(lexicon, sep, n - 1), f \in lexicon}

(***************************************************************************)
(* business_classifier.py : the taxonomy tables.                           *)
(***************************************************************************)
CategoryOrder ==
    <<"restaurant", "professional", "home_services",
     "health_medical", "beauty_wellness", "fitness", "retail", "real_estate",
     "automotive", "education", "creative", "hospitality">>

CATEGORY_KEYWORDS ==
    [restaurant |->
        [primary |-> <<"restaurant", "cafe", "dining", "food", "cuisine", "menu", "chef", "bistro", "eatery">>,
         secondary |-> <<"pizza", "italian", "chinese", "indian", "thai", "sushi", "japanese", "mexican", "burger", "barbecue", "bbq", "steakhouse", "seafood", "vegan", "vegetarian">>],
     professional |->
        [primary |-> <<"lawyer", "attorney", "legal", "accountant", "accounting", "consultant", "consulting", "financial", "advisor", "cpa", "tax">>,
         secondary |-> <<"law firm", "bookkeeping", "audit", "litigation", "contract", "business consulting", "strategy">>],
     home_services |->
        [primary |-> <<"plumber", "plumbing", "electrician", "electrical", "hvac", "heating", "cooling", "carpenter", "carpentry", "locksmith", "handyman">>,
         secondary |-> <<"repair", "installation", "maintenance", "emergency", "24/7", "licensed", "insured">>],
     health_medical |->
        [primary |-> <<"dentist", "dental", "doctor", "physician", "clinic", "medical", "therapy", "therapist", "chiropractor", "physiotherapy">>,
         secondary |-> <<"healthcare", "wellness", "treatment", "patient", "diagnosis", "surgery", "orthodontic", "pediatric">>],
     beauty_wellness |->
        [primary |-> <<"salon", "spa", "massage", "barber", "nails", "manicure", "pedicure", "beauty", "hair", "hairstylist">>,
         secondary |-> <<"facial", "waxing", "makeup", "cosmetic", "skincare", "relaxation", "aromatherapy">>],
     fitness |->
        [primary |-> <<"gym", "fitness", "yoga", "pilates", "personal training", "crossfit", "workout", "exercise">>,
         secondary |-> <<"weight loss", "muscle", "cardio", "strength", "wellness", "health club", "boxing", "martial arts">>],
     retail |->
        [primary |-> <<"shop", "store", "boutique", "retail", "products", "merchandise", "clothing", "apparel", "fashion">>,
         secondary |-> <<"ecommerce", "shopping", "buy", "sale", "discount", "online store", "marketplace">>],
     real_estate |->
        [primary |-> <<"realtor", "real estate", "property", "homes", "houses", "apartments", "estate agent", "realty">>,
         secondary |-> <<"buying", "selling", "rental", "lease", "commercial", "residential", "investment", "listing">>],
     automotive |->
        [primary |-> <<"mechanic", "auto repair", "car service", "automotive", "garage", "vehicle", "auto shop">>,
         secondary |-> <<"oil change", "brake", "transmission", "engine", "tire", "inspection", "diagnostic", "body shop">>],
     education |->
        [primary |-> <<"school", "training", "courses", "tutoring", "education", "learning", "academy", "institute">>,
         secondary |-> <<"teaching", "lessons", "class", "workshop", "certification", "online learning", "coaching">>],
     creative |->
        [primary |-> <<"photographer", "photography", "designer", "design", "agency", "studio", "creative", "artist">>,
         secondary |-> <<"graphic design", "web design", "branding", "marketing", "advertising", "video", "production">>],
     hospitality |->
        [primary |-> <<"hotel", "motel", "accommodation", "bnb", "bed and breakfast", "resort", "inn", "lodging">>,
         secondary |-> <<"rooms", "booking", "stay", "guest", "vacation", "travel", "amenities", "hospitality">>]]

CONFIDENCE_INDICATORS ==
    [restaurant |-> <<"menu page", "reservation", "delivery", "takeout", "hours", "food photos">>,
     professional |-> <<"credentials", "case studies", "consultation", "practice areas", "attorney", "certified">>,
     home_services |-> <<"service area", "emergency", "licensed", "insured", "free quote", "24/7">>,
     health_medical |-> <<"appointment", "insurance", "patients", "services", "doctors", "treatments">>,
     beauty_wellness |-> <<"services", "pricing", "booking", "before/after", "gallery", "testimonials">>,
     fitness |-> <<"classes", "schedule", "membership", "trainers", "facilities", "programs">>,
     retail |-> <<"products", "cart", "checkout", "shipping", "returns", "catalog">>,
     real_estate |-> <<"listings", "properties", "search", "agents", "mls", "sold">>,
     automotive |-> <<"services", "appointment", "diagnostics", "warranty", "certified", "repairs">>,
     education |-> <<"courses", "enrollment", "tuition", "curriculum", "instructors", "certification">>,
     creative |-> <<"portfolio", "work", "clients", "packages", "projects", "gallery">>,
     hospitality |-> <<"rooms", "availability", "check-in", "amenities", "location", "rates">>]

SECONDARY_TAGS ==
    [restaurant |->
        <<[tag |-> "italian", tag_keywords |-> <<"italian", "pasta", "pizza", "romano">>],
          [tag |-> "chinese", tag_keywords |-> <<"chinese", "dim sum", "wok", "asian">>],
          [tag |-> "mexican", tag_keywords |-> <<"mexican", "taco", "burrito", "salsa">>],
          [tag |-> "fast_food", tag_keywords |-> <<"fast food", "quick service", "drive-thru">>],
          [tag |-> "fine_dining", tag_keywords |-> <<"fine dining", "upscale", "gourmet", "michelin">>],
          [tag |-> "casual", tag_keywords |-> <<"casual", "family", "friendly", "neighborhood">>],
          [tag |-> "cafe", tag_keywords |-> <<"cafe", "coffee", "bakery", "breakfast">>]>>,
     home_services |->
        <<[tag |-> "emergency", tag_keywords |-> <<"emergency", "24/7", "24 hour", "urgent">>],
          [tag |-> "residential", tag_keywords |-> <<"residential", "home", "house">>],
          [tag |-> "commercial", tag_keywords |-> <<"commercial", "business", "industrial">>]>>,
     beauty_wellness |->
        <<[tag |-> "hair", tag_keywords |-> <<"hair", "salon", "barber", "hairstylist">>],
          [tag |-> "nails", tag_keywords |-> <<"nails", "manicure", "pedicure">>],
          [tag |-> "spa", tag_keywords |-> <<"spa", "massage", "facial", "relaxation">>]>>]

(***************************************************************************)
(* business_classifier.py : classify_business.                             *)
(***************************************************************************)
TaxonomyTypes == SeqRange(CategoryOrder)

\* The  keyword in search_text  tests of one call all search the same text.
\* substrings_upto(text, len) tabulates, by length, the substrings of the text
\* that are no longer than len (MaxKeywordLen: the longest keyword), and
\* occurs_in(keyword, table) is  keyword in text  answered from that table.
MaxKeywordLen == 19

RECURSIVE substrings_upto(_, _)
substrings_upto(text, len) ==
    IF len = 0 THEN <<>>
    ELSE Append(substrings_upto(text, len - 1),
                {SubSeq(text, i, i + len - 1) : i \in 1..(Len(text) - len + 1)})

occurs_in(keyword, table) == keyword \in table[Len(keyword)]

\* one keyword loop of lines 137-152: adds weight for every keyword of the
\* list that occurs in the text
RECURSIVE keyword_score(_, _, _)
keyword_score(keywords, text, weight) ==
    IF keywords = <<>> THEN 0
    ELSE (IF occurs_in(Head(keywords), text) THEN weight ELSE 0)
         + keyword_score(Tail(keywords), text, weight)

\* the keywords appended to  matched  by one loop, in list order
RECURSIVE keyword_matches(_, _)
keyword_matches(keywords, text) ==
    IF keywords = <<>> THEN <<>>
    ELSE (IF occurs_in(Head(keywords), text) THEN <<Head(keywords)>> ELSE <<>>)
         \o keyword_matches(Tail(keywords), text)

\* the two dicts filled by the loop of lines 132-155
score_categories(text, wtext) ==
    [c \in TaxonomyTypes |->
        keyword_score(CATEGORY_KEYWORDS[c].primary, text, 10)
        + keyword_score(CATEGORY_KEYWORDS[c].secondary, text, 3)
        + (IF wtext # ""
           THEN keyword_score(CONFIDENCE_INDICATORS[c], text, 5)
           ELSE 0)]

match_categories(text) ==
    [c \in TaxonomyTypes |->
        keyword_matches(CATEGORY_KEYWORDS[c].primary, text)
        \o keyword_matches(CATEGORY_KEYWORDS[c].secondary, text)]

\* max(category_scores.values())
max_value(scores) ==
    CHOOSE v \in {scores[c] : c \in DOMAIN scores} :
        \A c \in DOMAIN scores : scores[c] <= v

\* line 158: the test that sends the call to the "general" fallback
no_match_mut(scores) == scores[Head(CategoryOrder)] = 0

no_match(scores) == DOMAIN scores = {} \/ max_value(scores) = 0

\* max(category_scores, key=category_scores.get): the dict is iterated in
\* insertion order and a later key replaces the best only when strictly larger
RECURSIVE max_key_mut(_, _, _)
max_key_mut(scores, order, best) ==
    IF order = <<>> THEN best
    ELSE max_key_mut(scores, Tail(order),
                     IF scores[Head(order)] >= scores[best]
                     THEN Head(order) ELSE best)

RECURSIVE max_key(_, _, _)
max_key(scores, order, best) ==
    IF order = <<>> THEN best
    ELSE max_key(scores, Tail(order),
                 IF scores[Head(order)] > scores[best] THEN Head(order) ELSE best)

\* lines 176-183: the confidence before rounding, in units of 0.0001
confidence_of_mut(score) ==
    IF score >= 30 THEN 7000 + (score - 30) * 100
    ELSE IF score >= 20 THEN 7000 + (score - 20) * 200
    ELSE IF score >= 10 THEN 5000 + (score - 10) * 200
    ELSE score * 500

confidence_of_mut2(score) ==
    IF score >= 30 THEN Min(9500, 7000 + (score - 30) * 100)
    ELSE IF score >= 20 THEN 7000 + (score - 20) * 200
    ELSE IF score >= 10 THEN 5000 + (score - 10) * 100
    ELSE score * 500

confidence_of(score) ==
    IF score >= 30 THEN Min(9500, 7000 + (score - 30) * 100)
    ELSE IF score >= 20 THEN 7000 + (score - 20) * 200
    ELSE IF score >= 10 THEN 5000 + (score - 10) * 200
    ELSE score * 500

\* round(confidence, 2): units of 0.0001 in, hundredths out, ties to even
round2(x) ==
    LET q == x \div 100
        r == x % 100
    IN  IF r > 50 \/ (r = 50 /\ q % 2 = 1) THEN q + 1 ELSE q

\* lines 188-192: a tag is appended once when any of its keywords occurs
RECURSIVE detect_tags(_, _)
detect_tags(tag_table, text) ==
    IF tag_table = <<>> THEN <<>>
    ELSE (IF \E i \in DOMAIN Head(tag_table).tag_keywords :
                occurs_in(Head(tag_table).tag_keywords[i], text)
          THEN <<Head(tag_table).tag>> ELSE <<>>)
         \o detect_tags(Tail(tag_table), text)

\* line 197, list(set(secondary_tags)): a set of str is iterated in the order
\* of the table slots of its elements, and the slot of a str comes from its
\* hash, which CPython salts with the hash seed of the interpreter process.
\* str_hash stands for that salted hash: one fixed order per seed, different
\* orders for different seeds (17: a table size above the number of tags).
AllTags ==
    <<"italian", "chinese", "mexican", "fast_food", "fine_dining", "casual",
      "cafe", "emergency", "residential", "commercial", "hair", "nails", "spa">>

str_hash(s, seed) ==
    LET i == CHOOSE j \in DOMAIN AllTags : AllTags[j] = s
    IN  (i * (seed + 1)) % 17

RECURSIVE set_to_list(_, _)
set_to_list(S, seed) ==
    IF S = {} THEN <<>>
    ELSE LET first == CHOOSE x \in S :
                          \A y \in S : str_hash(x, seed) <= str_hash(y, seed)
         IN  <<first>> \o set_to_list(S \ {first}, seed)

(***************************************************************************)
(* Inputs of classify_business.                                            *)
(***************************************************************************)
CategoryInputs == {"", "plumber", "Plumber Electrician", "real", "wellness"}
NameInputs == {"", "Acme Plumbing", "estate", "Licensed HVAC Repair"}
TextLexicon ==
    {"24/7 emergency plumber, licensed and insured", "urgent home repair",
     "repair, installation, maintenance", "day spa", "commercial heating"}

ClassifierInputs ==
    [category : CategoryInputs, business_name : NameInputs,
     website_text : UNION {FragmentsOf(TextLexicon, " ", n) : n \in 0..MaxTextFrags}]

(***************************************************************************)
(* State.  args and results are the sequences of the calls made so far and *)
(* of the values they returned; the other variables are the locals of the  *)
(* call in progress.  hash_seed is the hash seed of the interpreter        *)
(* process that executes the call.                                         *)
(***************************************************************************)
VARIABLES args, hash_seed, pc, search_text, category_scores,
          matched_keywords_by_category, primary_type, max_score, confidence,
          secondary_tags, results

classifierVars ==
    <<args, hash_seed, pc, search_text, category_scores,
      matched_keywords_by_category, primary_type, max_score, confidence,
      secondary_tags, results>>

\* the arguments category, business_name, website_text of the call in progress
call == args[Len(args)]

NoScores == [c \in {} |-> 0]

\* the first call, with arguments among inputs, in a process whose hash seed
\* is among seeds
ClassifierInit(inputs, seeds) ==
    /\ args \in {<<a>> : a \in inputs}
    /\ hash_seed \in seeds
    /\ results = <<>>
    /\ pc = "start"
    /\ search_text = ""
    /\ category_scores = NoScores
    /\ matched_keywords_by_category = NoScores
    /\ primary_type = ""
    /\ max_score = 0
    /\ confidence = 0
    /\ secondary_tags = <<>>

\* line 126
BuildSearchText ==
    /\ pc = "start"
    /\ search_text' =
           lower(call.category \o " " \o call.business_name \o " "
                 \o call.website_text)
    /\ pc' = "combined"
    /\ UNCHANGED <<args, hash_seed, category_scores,
                   matched_keywords_by_category, primary_type, max_score,
                   confidence, secondary_tags, results>>

\* lines 129-155
ScoreCategories ==
    /\ pc = "combined"
    /\ category_scores' =
           score_categories(substrings_upto(search_text, MaxKeywordLen),
                            call.website_text)
    /\ matched_keywords_by_category' =
           match_categories(substrings_upto(search_text, MaxKeywordLen))
    /\ pc' = "scored"
    /\ UNCHANGED <<args, hash_seed, search_text, primary_type, max_score,
                   confidence, secondary_tags, results>>

\* lines 158-166
ReturnGeneral ==
    /\ pc = "scored"
    /\ no_match(category_scores)
    /\ results' = Append(results,
                         [primary_type |-> "general",
                          confidence |-> 0,
                          secondary_tags |-> <<>>,
                          matched_keywords |-> <<>>,
                          warning |-> "Could not classify business type"])
    /\ pc' = "done"
    /\ UNCHANGED <<args, hash_seed, search_text, category_scores,
                   matched_keywords_by_category, primary_type, max_score,
                   confidence, secondary_tags>>

\* lines 168-183
SelectPrimary ==
    /\ pc = "scored"
    /\ ~no_match(category_scores)
    /\ LET best == max_key(category_scores, Tail(CategoryOrder),
                           Head(CategoryOrder))
       IN  /\ primary_type' = best
           /\ max_score' = category_scores[best]
           /\ confidence' = confidence_of(category_scores[best])
    /\ pc' = "selected"
    /\ UNCHANGED <<args, hash_seed, search_text, category_scores,
                   matched_keywords_by_category, secondary_tags, results>>

\* lines 186-192
DetectSecondaryTags ==
    /\ pc = "selected"
    /\ secondary_tags' =
           IF primary_type \in DOMAIN SECONDARY_TAGS
           THEN detect_tags(SECONDARY_TAGS[primary_type],
                            substrings_upto(search_text, MaxKeywordLen))
           ELSE <<>>
    /\ pc' = "tagged"
    /\ UNCHANGED <<args, hash_seed, search_text, category_scores,
                   matched_keywords_by_category, primary_type, max_score,
                   confidence, results>>

\* lines 194-203
ReturnResult ==
    /\ pc = "tagged"
    /\ results' = Append(results,
                         [primary_type |-> primary_type,
                          confidence |-> round2(confidence),
                          secondary_tags |->
                              set_to_list(SeqRange(secondary_tags), hash_seed),
                          matched_keywords |->
                              take(matched_keywords_by_category[primary_type], 5)])
    /\ pc' = "done"
    /\ UNCHANGED <<args, hash_seed, search_text, category_scores,
                   matched_keywords_by_category, primary_type, max_score,
                   confidence, secondary_tags>>

\* classify_business is called again for the same business: with the same
\* arguments or after its category field was edited, by the same interpreter
\* process or by another one (a second server worker, a restart)
CallAgain ==
    /\ pc = "done"
    /\ Len(args) = 1
    /\ \E c \in CategoryInputs :
           args' = Append(args, [args[1] EXCEPT !.category = c])
    /\ \E s \in 0..MaxHashSeed : hash_seed' = s
    /\ pc' = "start"
    /\ search_text' = ""
    /\ category_scores' = NoScores
    /\ matched_keywords_by_category' = NoScores
    /\ primary_type' = ""
    /\ max_score' = 0
    /\ confidence' = 0
    /\ secondary_tags' = <<>>
    /\ UNCHANGED results

(***************************************************************************)
(* Regular-expression primitives (Python re) used by content_extractor.py. *)
(* A position is a 1-based index into the string; a matcher returns the    *)
(* position after what it consumed, or 0 when it fails, and fails on 0.    *)
(* A character class is a set of characters, negated when neg is TRUE.     *)
(***************************************************************************)
Quotes == {"\"", "'"}

\* \s, \d, [0-9a-fA-F], \w
ClassSpace == [set |-> {" ", "\t", "\n", "\r", "\f"}, neg |-> FALSE]
ClassDigit == [set |-> {"0", "1", "2", "3", "4", "5", "6", "7", "8", "9"},
               neg |-> FALSE]
ClassHex == [set |-> ClassDigit.set \cup {"a", "b", "c", "d", "e", "f",
                                          "A", "B", "C", "D", "E", "F"},
             neg |-> FALSE]
ClassWord == [set |-> DOMAIN LowerOf \cup DOMAIN UpperOf \cup ClassDigit.set
                      \cup {"_"},
              neg |-> FALSE]

in_class(c, cls) == c # "" /\ ((c \in cls.set) # cls.neg)

\* the position after the longest run of class characters that starts at i
RECURSIVE run_end(_, _, _)
run_end(s, i, cls) ==
    IF in_class(CharAt(s, i), cls) THEN run_end(s, i + 1, cls) ELSE i

\* a literal, case-sensitive and under re.IGNORECASE (word in lower case)
lit(s, i, word) ==
    IF i >= 1 /\ i + Len(word) - 1 <= Len(s)
       /\ SubSeq(s, i, i + Len(word) - 1) = word
    THEN i + Len(word) ELSE 0

lit_i(s, i, word) ==
    IF i >= 1 /\ i + Len(word) - 1 <= Len(s)
       /\ lower(SubSeq(s, i, i + Len(word) - 1)) = word
    THEN i + Len(word) ELSE 0

\* (?:w1|w2|...) under re.IGNORECASE: the first alternative that matches
RECURSIVE first_lit_i(_, _, _)
first_lit_i(s, i, words) ==
    IF words = <<>> THEN 0
    ELSE IF lit_i(s, i, Head(words)) # 0 THEN lit_i(s, i, Head(words))
    ELSE first_lit_i(s, i, Tail(words))

\* [class]* and [class]+
many(s, i, cls) == IF i = 0 THEN 0 ELSE run_end(s, i, cls)

some(s, i, cls) == IF i # 0 /\ run_end(s, i, cls) > i THEN run_end(s, i, cls) ELSE 0

\* the result of a pattern that does not match at a position
NoMatch == [end |-> 0]

\* re.findall: the groups of the successive non-overlapping matches, from the
\* left; m[i] is the match of the pattern at position i of the string, and
\* starts the set of the positions where it matches
RECURSIVE findall_from(_, _, _)
findall_from(m, starts, i) ==
    IF \A j \in starts : j < i THEN <<>>
    ELSE LET k == CHOOSE j \in starts : j >= i /\ \A l \in starts : l >= i => j <= l
         IN  <<m[k].cap>> \o findall_from(m, starts, m[k].end)

findall(m) == findall_from(m, {j \in DOMAIN m : m[j].end # 0}, 1)

\* str.strip()
RECURSIVE strip(_)
strip(s) ==
    IF in_class(CharAt(s, 1), ClassSpace) THEN strip(SubSeq(s, 2, Len(s)))
    ELSE IF in_class(CharAt(s, Len(s)), ClassSpace)
    THEN strip(SubSeq(s, 1, Len(s) - 1))
    ELSE s

\* the value of one hexadecimal (or decimal) digit
hex_value(c) ==
    CHOOSE d \in 0..15 : SubSeq("0123456789ABCDEF", d + 1, d + 1) = upper(c)

\* int(text) of a run of decimal digits
RECURSIVE int10(_)
int10(text) ==
    IF text = "" THEN 0
    ELSE 10 * int10(SubSeq(text, 1, Len(text) - 1))
         + hex_value(SubSeq(text, Len(text), Len(text)))

\* f"{n:X}" and f"{n:02X}"
RECURSIVE format_X(_)
format_X(n) ==
    IF n < 16 THEN SubSeq("0123456789ABCDEF", n + 1, n + 1)
    ELSE format_X(n \div 16) \o SubSeq("0123456789ABCDEF", (n % 16) + 1, (n % 16) + 1)

format_02X(n) == IF n < 16 THEN "0" \o format_X(n) ELSE format_X(n)

\* the concatenation of the lists of qs, in order: what a for loop appends
\* to a list, qs[i] being what its i-th iteration appends
RECURSIVE concat(_)
concat(qs) == IF Len(qs) = 0 THEN <<>> ELSE Head(qs) \o concat(Tail(qs))

(***************************************************************************)
(* content_extractor.py : extract_colors_from_text.                        *)
(* A pattern applied at position i of s yields [end, cap]: the position    *)
(* after the match and its group(s), or NoMatch.                           *)
(***************************************************************************)

\* line 38: #(?:[0-9a-fA-F]{3}|[0-9a-fA-F]{6})\b ; n is the number of hex
\* digits that follow the '#'.  \b after a hex digit holds when no word
\* character follows.
hex_pattern(s, i) ==
    LET n == run_end(s, i + 1, ClassHex) - (i + 1)
        e == IF n >= 3 /\ ~in_class(CharAt(s, i + 4), ClassWord) THEN i + 4
             ELSE IF n >= 6 /\ ~in_class(CharAt(s, i + 7), ClassWord) THEN i + 7
             ELSE 0
    IN  IF CharAt(s, i) = "#" /\ e # 0
        THEN [end |-> e, cap |-> SubSeq(s, i, e - 1)]
        ELSE NoMatch

\* line 42: rgba?\s*\(\s*(\d+)\s*,\s*(\d+)\s*,\s*(\d+)(?:\s*,\s*[\d.]+)?\s*\)
rgb_pattern(s, i) ==
    LET rgb == lit(s, i, "rgb")
        open == lit(s, many(s, IF lit(s, rgb, "a") # 0 THEN lit(s, rgb, "a")
                               ELSE rgb, ClassSpace), "(")
        number_end(p) == some(s, many(s, p, ClassSpace), ClassDigit)
        comma(p) == lit(s, many(s, p, ClassSpace), ",")
        close(p) == lit(s, many(s, p, ClassSpace), ")")
        group(p) == SubSeq(s, many(s, p, ClassSpace), number_end(p) - 1)
        g == comma(number_end(open))
        b == comma(number_end(g))
        alpha == some(s, many(s, comma(number_end(b)), ClassSpace),
                      [set |-> ClassDigit.set \cup {"."}, neg |-> FALSE])
        e == IF close(alpha) # 0 THEN close(alpha) ELSE close(number_end(b))
    IN  IF rgb = 0 \/ e = 0 THEN NoMatch
        ELSE [end |-> e, cap |-> <<group(open), group(g), group(b)>>]

\* line 46: (?:background-color|color|border-color|fill|stroke)\s*:\s*
\*          ([#]?[0-9a-fA-F]{3,6}|rgba?\([^)]+\))        with re.IGNORECASE
css_color_pattern(s, i) ==
    LET name == first_lit_i(s, i, <<"background-color", "color", "border-color",
                                    "fill", "stroke">>)
        v == many(s, lit(s, many(s, name, ClassSpace), ":"), ClassSpace)
        h == IF CharAt(s, v) = "#" THEN v + 1 ELSE v
        n == run_end(s, h, ClassHex) - h
        rgb == lit_i(s, v, "rgb")
        paren == lit(s, some(s, lit(s, IF lit_i(s, rgb, "a") # 0
                                       THEN lit_i(s, rgb, "a") ELSE rgb, "("),
                             [set |-> {")"}, neg |-> TRUE]), ")")
        e == IF n >= 3 THEN h + Min(n, 6) ELSE paren
    IN  IF name = 0 \/ v = 0 \/ e = 0 THEN NoMatch
        ELSE [end |-> e, cap |-> SubSeq(s, v, e - 1)]

\* line 50: style\s*=\s*["'][^"']*(?:background-color|color)\s*:\s*([^;"']+)
\* with re.IGNORECASE.  [^"']* is greedy: the property matched is the last
\* one of the quote-free run for which the rest of the pattern matches.  When
\* nothing but white space follows the colon, \s* gives one character back to
\* the group.
inline_style_pattern(s, i) ==
    LET eq == lit(s, many(s, lit_i(s, i, "style"), ClassSpace), "=")
        q == IF eq # 0 /\ CharAt(s, many(s, eq, ClassSpace)) \in Quotes
             THEN many(s, eq, ClassSpace) + 1 ELSE 0
        value(k) ==
            LET c == lit(s, many(s, first_lit_i(s, k, <<"background-color", "color">>),
                                 ClassSpace), ":")
                w == many(s, c, ClassSpace)
                e == many(s, w, [set |-> Quotes \cup {";"}, neg |-> TRUE])
            IN  IF c = 0 THEN NoMatch
                ELSE IF e > w THEN [end |-> e, cap |-> SubSeq(s, w, e - 1)]
                ELSE IF w > c THEN [end |-> w, cap |-> SubSeq(s, w - 1, w - 1)]
                ELSE NoMatch
        ks == {k \in q..run_end(s, q, [set |-> Quotes, neg |-> TRUE]) :
                   value(k).end # 0}
    IN  IF q = 0 \/ ks = {} THEN NoMatch
        ELSE value(CHOOSE k \in ks : \A j \in ks : j <= k)

\* re.findall(r'\d+', color)
RECURSIVE digit_runs(_, _)
digit_runs(s, i) ==
    IF i > Len(s) THEN <<>>
    ELSE IF in_class(CharAt(s, i), ClassDigit)
    THEN <<SubSeq(s, i, run_end(s, i, ClassDigit) - 1)>>
         \o digit_runs(s, run_end(s, i, ClassDigit))
    ELSE digit_runs(s, i + 1)

\* lines 56-58, 63-65, 77-79: a 4-character value is widened, then upper-cased
normalize_hex(color) ==
    upper(IF Len(color) = 4
          THEN "#" \o CharAt(color, 2) \o CharAt(color, 2) \o CharAt(color, 3)
               \o CharAt(color, 3) \o CharAt(color, 4) \o CharAt(color, 4)
          ELSE color)

\* lines 70, 83
rgb_to_hex(r, g, b) ==
    "#" \o format_02X(int10(r)) \o format_02X(int10(g)) \o format_02X(int10(b))

\* lines 61-71: what one CSS match appends to colors
css_color(color) ==
    IF lit(color, 1, "#") # 0 THEN <<normalize_hex(color)>>
    ELSE IF lit(color, 1, "rgb") # 0 /\ Len(digit_runs(color, 1)) >= 3
    THEN <<rgb_to_hex(digit_runs(color, 1)[1], digit_runs(color, 1)[2],
                      digit_runs(color, 1)[3])>>
    ELSE <<>>

\* lines 74-79: what one inline-style match appends to colors
inline_color(color) ==
    IF lit(strip(color), 1, "#") # 0 THEN <<normalize_hex(strip(color))>> ELSE <<>>

\* Counter(items): the keys in the order of their first occurrence, and the
\* count of each key
Counter(items) ==
    [keys |-> concat([i \in DOMAIN items |->
                         IF \A j \in 1..(i - 1) : items[j] # items[i]
                         THEN <<items[i]>> ELSE <<>>]),
     count |-> [c \in {items[i] : i \in DOMAIN items} |->
                    Cardinality({i \in DOMAIN items : items[i] = c})]]

\* counter.most_common(n): the keys sorted by decreasing count, keys of equal
\* count in the order of their first occurrence, cut to n
most_common(counter, n) ==
    LET before(j, i) == \/ counter.count[counter.keys[j]] > counter.count[counter.keys[i]]
                        \/ /\ counter.count[counter.keys[j]] = counter.count[counter.keys[i]]
                           /\ j < i
        rank(i) == 1 + Cardinality({j \in DOMAIN counter.keys : before(j, i)})
    IN  take([k \in DOMAIN counter.keys |->
                 counter.keys[CHOOSE i \in DOMAIN counter.keys : rank(i) = k]], n)

\* int(text, 16) of a two-character slice: white space around and a sign are
\* accepted; ok is FALSE where Python raises ValueError
int16(text) ==
    LET t == strip(text)
        signed == CharAt(t, 1) \in {"+", "-"}
        digits == IF signed THEN SubSeq(t, 2, Len(t)) ELSE t
        val == IF Len(digits) = 1 THEN hex_value(digits)
               ELSE 16 * hex_value(CharAt(digits, 1)) + hex_value(CharAt(digits, 2))
    IN  IF digits # "" /\ \A i \in 1..Len(digits) : in_class(CharAt(digits, i), ClassHex)
        THEN [ok |-> TRUE, val |-> IF CharAt(t, 1) = "-" THEN -val ELSE val]
        ELSE [ok |-> FALSE, val |-> 0]

\* lines 93-102: TRUE when the body of the filter loop reaches a  continue ;
\* a ValueError of int() is swallowed by the  except
skip_color_mut(color) ==
    color \in {"#FFFFFF", "#000000", "#FFF", "#000", "#FEFEFE", "#010101"}

skip_color(color) ==
    LET r == int16(SubSeq(color, 2, 3))
        g == int16(SubSeq(color, 4, 5))
        b == int16(SubSeq(color, 6, 7))
    IN  \/ color \in {"#FFFFFF", "#000000", "#FFF", "#000", "#FEFEFE", "#010101"}
        \/ /\ Len(color) = 7
           /\ r.ok /\ g.ok /\ b.ok
           /\ \/ r.val > 250 /\ g.val > 250 /\ b.val > 250
              \/ r.val < 5 /\ g.val < 5 /\ b.val < 5

(***************************************************************************)
(* Inputs of extract_colors_from_text: markup made of fragments.           *)
(***************************************************************************)
MarkupLexicon ==
    {"#1a2b3c",
     "color:#1a2b3c;",
     "background-color:#ffffff;",
     "<p style='margin:0; color:#333 !important'>",
     "rgba(250, 128, 114, 0.5)",
     "fill: rgb(10, 20,30)",
     "rgb(300,0,0)",
     "border-color:#abcd",
     "#111111 #222222 #333333 #444444 #555555 #666666 #777777 #888888",
     "#FDFCFB",
     "rgb(1,2,3)",
     "#fff"}

ScenarioC ==
    "background-color:#ffffff; color:#1a2b3c; color:#1a2b3c; color:#1a2b3c; "
    \o "color:#1a2b3c; color:#1a2b3c; #ffffff"

MarkupInputs ==
    UNION {FragmentsOf(MarkupLexicon, " ", n) : n \in 0..MaxMarkupFrags}
    \cup {ScenarioC}

(***************************************************************************)
(* State of one call of extract_colors_from_text.                          *)
(***************************************************************************)
VARIABLES html_content, colors_pc, hex_matches, rgb_matches, css_matches,
          inline_matches, colors, color_counts, filtered_colors, color_result

colorVars ==
    <<html_content, colors_pc, hex_matches, rgb_matches, css_matches,
      inline_matches, colors, color_counts, filtered_colors, color_result>>

\* the call, with html_content among markups
ColorsInit(markups) ==
    /\ html_content \in markups
    /\ colors_pc = "start"
    /\ hex_matches = <<>>
    /\ rgb_matches = <<>>
    /\ css_matches = <<>>
    /\ inline_matches = <<>>
    /\ colors = <<>>
    /\ color_counts = Counter(<<>>)
    /\ filtered_colors = <<>>
    /\ color_result = <<>>

\* lines 37-51
FindColorMatches ==
    /\ colors_pc = "start"
    /\ hex_matches' = findall([i \in 1..Len(html_content) |-> hex_pattern(html_content, i)])
    /\ rgb_matches' = findall([i \in 1..Len(html_content) |-> rgb_pattern(html_content, i)])
    /\ css_matches' = findall([i \in 1..Len(html_content) |-> css_color_pattern(html_content, i)])
    /\ inline_matches' = findall([i \in 1..Len(html_content) |-> inline_style_pattern(html_content, i)])
    /\ colors_pc' = "matched"
    /\ UNCHANGED <<html_content, colors, color_counts, filtered_colors,
                   color_result>>

\* lines 53-84
ProcessColorMatches ==
    /\ colors_pc = "matched"
    /\ colors' =
           concat([i \in DOMAIN hex_matches |-> <<normalize_hex(hex_matches[i])>>])
           \o concat([i \in DOMAIN css_matches |-> css_color(css_matches[i])])
           \o concat([i \in DOMAIN inline_matches |-> inline_color(inline_matches[i])])
           \o concat([i \in DOMAIN rgb_matches |->
                         <<rgb_to_hex(rgb_matches[i][1], rgb_matches[i][2],
                                      rgb_matches[i][3])>>])
    /\ colors_pc' = "processed"
    /\ UNCHANGED <<html_content, hex_matches, rgb_matches, css_matches,
                   inline_matches, color_counts, filtered_colors, color_result>>

\* lines 87-103
FilterColors ==
    /\ colors_pc = "processed"
    /\ color_counts' = Counter(colors)
    /\ filtered_colors' =
           concat([i \in DOMAIN Counter(colors).keys |->
                      IF skip_color(Counter(colors).keys[i]) THEN <<>>
                      ELSE <<Counter(colors).keys[i]>>])
    /\ colors_pc' = "filtered"
    /\ UNCHANGED <<html_content, hex_matches, rgb_matches, css_matches,
                   inline_matches, colors, color_result>>

\* lines 106-110
ReturnMostCommon ==
    /\ colors_pc = "filtered"
    /\ color_result' = most_common(Counter(filtered_colors), 8)
    /\ colors_pc' = "done"
    /\ UNCHANGED <<html_content, hex_matches, rgb_matches, css_matches,
                   inline_matches, colors, color_counts, filtered_colors>>

(***************************************************************************)
(* content_extractor.py : extract_images, as extract_business_content      *)
(* calls it.                                                               *)
(***************************************************************************)

\* line 257:
\*   <img[^>]+src=["']([^"']+)["'](?:[^>]+alt=["']([^"']*)["'])?[^>]*>
\* with re.IGNORECASE.  A greedy [^>]+ is given back from the right, so the
\* attribute matched is the last one of the run for which the rest matches.
\* attribute(s, k, name) is  name["']([^"']*)["']  at k: v and e are the
\* positions of the first character of the value and of the closing quote.
attribute(s, k, name) ==
    LET a == lit_i(s, k, name)
        e == run_end(s, a + 1, [set |-> Quotes, neg |-> TRUE])
    IN  IF a # 0 /\ CharAt(s, a) \in Quotes /\ e <= Len(s)
        THEN [v |-> a + 1, e |-> e] ELSE [v |-> 0, e |-> 0]

\* (?:[^>]+alt=["']([^"']*)["'])?[^>]*>  at p
alt_group(s, p) ==
    LET tag_close(t) == lit(s, run_end(s, t, [set |-> {">"}, neg |-> TRUE]), ">")
        alt_at(j) == attribute(s, j, "alt=")
        js == {j \in (p + 1)..run_end(s, p, [set |-> {">"}, neg |-> TRUE]) :
                   alt_at(j).v # 0 /\ tag_close(alt_at(j).e + 1) # 0}
        last == CHOOSE j \in js : \A l \in js : l <= j
    IN  IF js # {}
        THEN [end |-> tag_close(alt_at(last).e + 1),
              alt |-> SubSeq(s, alt_at(last).v, alt_at(last).e - 1)]
        ELSE [end |-> tag_close(p), alt |-> ""]

img_pattern(s, i) ==
    LET o == lit_i(s, i, "<img")
        src_at(k) == attribute(s, k, "src=")
        ks == {k \in (o + 1)..run_end(s, o, [set |-> {">"}, neg |-> TRUE]) :
                   /\ src_at(k).e > src_at(k).v
                   /\ alt_group(s, src_at(k).e + 1).end # 0}
        last == CHOOSE k \in ks : \A l \in ks : l <= k
    IN  IF o = 0 \/ ks = {} THEN NoMatch
        ELSE [end |-> alt_group(s, src_at(last).e + 1).end,
              cap |-> <<SubSeq(s, src_at(last).v, src_at(last).e - 1),
                        alt_group(s, src_at(last).e + 1).alt>>]

\* line 260: matches[:limit]
limited_mut(matches, limit) == matches

limited(matches, limit) == take(matches, limit)

\* line 262
skip_image(src) ==
    \E skip \in {"icon", "pixel", "track", "1x1", "spacer"} : Contains(lower(src), skip)

\* urllib.parse.urljoin(base, src) for an http(s) base URL and a src without
\* dot segments: a src with a scheme is kept, //host/path takes the scheme of
\* the base, /path its scheme and host, and any other src replaces what
\* follows the last '/' of the base path.
urljoin(base, src) ==
    LET Letters == DOMAIN LowerOf \cup DOMAIN UpperOf
        scheme_end(url) ==
            some(url, 1, [set |-> Letters \cup ClassDigit.set \cup {"+", "-", "."},
                          neg |-> FALSE])
        path == run_end(base, lit(base, scheme_end(base), "://"),
                        [set |-> {"/"}, neg |-> TRUE])
        last_slash == CHOOSE i \in path..Len(base) :
                          /\ CharAt(base, i) = "/"
                          /\ \A j \in (i + 1)..Len(base) : CharAt(base, j) # "/"
    IN  IF CharAt(src, 1) \in Letters /\ CharAt(src, scheme_end(src)) = ":"
        THEN src
        ELSE IF lit(src, 1, "//") # 0 THEN SubSeq(base, 1, scheme_end(base)) \o src
        ELSE IF lit(src, 1, "/") # 0 THEN SubSeq(base, 1, path - 1) \o src
        ELSE IF path > Len(base) THEN base \o "/" \o src
        ELSE SubSeq(base, 1, last_slash) \o src

\* urljoin raises ValueError('Invalid IPv6 URL') when urlsplit finds a network
\* location (what follows '//' up to the next '/', '?' or '#', after the
\* scheme if src has one) that holds only one of '[' and ']'
urljoin_raises(src) ==
    LET Letters == DOMAIN LowerOf \cup DOMAIN UpperOf
        scheme_end == some(src, 1, [set |-> Letters \cup ClassDigit.set \cup {"+", "-", "."},
                                    neg |-> FALSE])
        rest == IF CharAt(src, 1) \in Letters /\ CharAt(src, scheme_end) = ":"
                THEN SubSeq(src, scheme_end + 1, Len(src)) ELSE src
        netloc == IF lit(rest, 1, "//") = 0 THEN ""
                  ELSE SubSeq(rest, 3, run_end(rest, 3, [set |-> {"/", "?", "#"},
                                                         neg |-> TRUE]) - 1)
    IN  Contains(netloc, "[") # Contains(netloc, "]")

\* lines 266-281: the entry appended for one match
image_of(base, src, alt) ==
    LET text == lower(src \o alt)
        any(words) == \E word \in words : Contains(text, word)
    IN  [url |-> urljoin(base, src),
         alt |-> alt,
         type |-> IF any({"logo", "brand"}) THEN "logo"
                  ELSE IF any({"hero", "banner", "header"}) THEN "hero"
                  ELSE IF any({"product", "service", "portfolio"}) THEN "content"
                  ELSE "general"]

(***************************************************************************)
(* Inputs of extract_images: markup made of fragments, and a base URL.     *)
(***************************************************************************)
\* n <img> tags whose src values are g0.jpg .. g9.jpg, g0.jpg, ...
RECURSIVE GalleryOf(_)
GalleryOf(n) ==
    IF n = 0 THEN ""
    ELSE GalleryOf(n - 1) \o "<img src='g" \o format_X((n - 1) % 10) \o ".jpg'>"

ImgLexicon ==
    {"<img src=\"a.png\">",
     "<img class='x' src='/a.png' alt='Our logo'>",
     "<IMG data-src=\"lazy.jpg\" SRC=\"hero-banner.jpg\" alt=\"\">",
     "<img src='tracking-pixel.gif' alt='a'>",
     "<img src='https://cdn.x.com/p.png' width='3' alt='Product' height='3'>",
     "<p>our <b>services</b></p>",
     "<img src=\"http://[x\">",
     GalleryOf(GallerySize)}

ImgMarkupInputs == UNION {FragmentsOf(ImgLexicon, "", n) : n \in 0..MaxImgFrags}

BaseUrlInputs == {"https://x.com", "https://x.com/shop/index.html"}

(***************************************************************************)
(* State of one call extract_images(html_content, base_url, limit=15).     *)
(***************************************************************************)
VARIABLES img_html, base_url, images_pc, img_matches, img_index, images

imageVars == <<img_html, base_url, images_pc, img_matches, img_index, images>>

\* the call, with html_content among markups and base_url among urls
ImagesInit(markups, urls) ==
    /\ img_html \in markups
    /\ base_url \in urls
    /\ images_pc = "start"
    /\ img_matches = <<>>
    /\ img_index = 0
    /\ images = <<>>

\* lines 254-258
FindImages ==
    /\ images_pc = "start"
    /\ img_matches' = findall([i \in 1..Len(img_html) |-> img_pattern(img_html, i)])
    /\ img_index' = 1
    /\ images_pc' = "loop"
    /\ UNCHANGED <<img_html, base_url, images>>

\* lines 260-263: the next of matches[:limit] is skipped
SkipImage ==
    /\ images_pc = "loop"
    /\ img_index <= Len(limited(img_matches, ImagesLimit))
    /\ skip_image(img_matches[img_index][1])
    /\ img_index' = img_index + 1
    /\ UNCHANGED <<img_html, base_url, images_pc, img_matches, images>>

\* lines 260-281: the next of matches[:limit] is appended
AppendImage ==
    /\ images_pc = "loop"
    /\ img_index <= Len(limited(img_matches, ImagesLimit))
    /\ ~skip_image(img_matches[img_index][1])
    /\ ~urljoin_raises(img_matches[img_index][1])
    /\ images' = Append(images, image_of(base_url, img_matches[img_index][1],
                                         img_matches[img_index][2]))
    /\ img_index' = img_index + 1
    /\ UNCHANGED <<img_html, base_url, images_pc, img_matches>>

\* line 266: urljoin raises for the next of matches[:limit]; extract_images
\* has no handler and the exception leaves it
RaiseImage ==
    /\ images_pc = "loop"
    /\ img_index <= Len(limited(img_matches, ImagesLimit))
    /\ ~skip_image(img_matches[img_index][1])
    /\ urljoin_raises(img_matches[img_index][1])
    /\ images_pc' = "raised"
    /\ UNCHANGED <<img_html, base_url, img_matches, img_index, images>>

\* line 283, and line 325 of extract_business_content
ReturnImages ==
    /\ images_pc = "loop"
    /\ img_index > Len(limited(img_matches, ImagesLimit))
    /\ images_pc' = "done"
    /\ UNCHANGED <<img_html, base_url, img_matches, img_index, images>>

(***************************************************************************)
(* content_extractor.py : extract_contact_info.                            *)
(***************************************************************************)

\* a or, when a is 0 (no match), b
first_nonzero(a, b) == IF a # 0 THEN a ELSE b

\* A pattern that is a sequence of items [class]{min,max} and \b, matched at
\* position i as re does: each item is greedy and gives characters back, one
\* by one, while the rest of the pattern fails.  n is the number of
\* characters tried for the first item; the result is the position after
\* the match, or 0.
item(set, min, max) == [set |-> set, neg |-> FALSE, min |-> min, max |-> max]

greedy(s, i, items) ==
    IF items = <<>> \/ "b" \in DOMAIN Head(items) THEN 0
    ELSE Min(Head(items).max, run_end(s, i, Head(items)) - i)

RECURSIVE match_seq(_, _, _, _)
match_seq(s, i, items, n) ==
    IF items = <<>> THEN i
    ELSE IF "b" \in DOMAIN Head(items)
    THEN IF in_class(CharAt(s, i - 1), ClassWord) # in_class(CharAt(s, i), ClassWord)
         THEN match_seq(s, i, Tail(items), greedy(s, i, Tail(items)))
         ELSE 0
    ELSE IF n < Head(items).min THEN 0
    ELSE first_nonzero(match_seq(s, i + n, Tail(items), greedy(s, i + n, Tail(items))),
                       match_seq(s, i, items, n - 1))

\* the match of such a pattern at position i, its group being the whole match
match_at(s, i, items) ==
    LET e == match_seq(s, i, items, greedy(s, i, items))
    IN  IF e = 0 THEN NoMatch ELSE [end |-> e, cap |-> SubSeq(s, i, e - 1)]

\* lines 213-217
phone_patterns ==
    LET d(min, max) == item(ClassDigit.set, min, max)
        sep == item({"-", "."} \cup ClassSpace.set, 0, 1)
    IN  << <<item({"+"}, 0, 1), d(1, 4), sep, item({"("}, 0, 1), d(1, 4),
             item({")"}, 0, 1), sep, d(1, 4), sep, d(1, 9)>>,
           <<d(3, 3), sep, d(3, 3), sep, d(4, 4)>>,
           <<d(5, 5), item(ClassSpace.set, 0, 1), d(6, 6)>> >>

\* line 226: \b[A-Za-z0-9._%+-]+@[A-Za-z0-9.-]+\.[A-Z|a-z]{2,}\b ; len, the
\* length of the text, stands for the missing upper limit of + and {2,}
email_pattern(len) ==
    LET alnum == ClassWord.set \ {"_"}
    IN  <<[b |-> TRUE],
          item(alnum \cup {".", "_", "%", "+", "-"}, 1, len), item({"@"}, 1, 1),
          item(alnum \cup {".", "-"}, 1, len), item({"."}, 1, 1),
          item(DOMAIN LowerOf \cup DOMAIN UpperOf \cup {"|"}, 2, len),
          [b |-> TRUE]>>

\* Optional[str]: <<>> is None and <<x>> the string x; not value, in Python
falsy(value) == value = <<>> \/ value = <<"">>

\* lines 219-223: the for loop over phone_patterns, which stops at the first
\* pattern that matches when no phone is known; <<>> when nothing is set
RECURSIVE first_phone(_, _)
first_phone(html, patterns) ==
    LET phones == findall([i \in 1..Len(html) |-> match_at(html, i, Head(patterns))])
    IN  IF patterns = <<>> THEN <<>>
        ELSE IF phones # <<>> THEN take(phones, 1)
        ELSE first_phone(html, Tail(patterns))

\* lines 207 and 221-222: contact["phone"] after the loop, for the known
\* phone and the value the loop found
contact_phone_mut(phone, found) ==
    IF found # <<>> THEN found ELSE phone

contact_phone(phone, found) ==
    IF found # <<>> /\ falsy(phone) THEN found ELSE phone

\* lines 206-239
extract_contact_info(html, phone) ==
    LET emails == findall([i \in 1..Len(html) |->
                              match_at(html, i, email_pattern(Len(html)))])
        spam(email) == \E w \in {"noreply", "example", "test", "spam"} :
                           Contains(lower(email), w)
        valid_emails == concat([i \in DOMAIN emails |->
                                   IF spam(emails[i]) THEN <<>> ELSE <<emails[i]>>])
    IN  [phone |-> contact_phone(phone, first_phone(html, phone_patterns)),
         email |-> take(valid_emails, 1),
         address |-> <<>>]

(***************************************************************************)
(* Inputs and state of one call extract_contact_info(html_content,         *)
(* business_phone); html_content is the variable of that name.             *)
(***************************************************************************)
ContactLexicon ==
    {"call 020 7946 0958 now", "tel: +44 (20) 7946-0958.", "est. 2019",
     "mail info@acme.co.uk", "noreply@acme.com sales@acme.io", "<p>hello</p>",
     "01234 567890"}

ContactMarkupInputs ==
    UNION {FragmentsOf(ContactLexicon, " ", n) : n \in 0..MaxContactFrags}

PhoneInputs == {<<>>, <<"">>, <<"0800 111 222">>}

VARIABLES business_phone, contact_pc, contact

contactVars == <<business_phone, contact_pc, contact>>

ContactInit(phones) ==
    /\ business_phone \in phones
    /\ contact_pc = "start"
    /\ contact = [phone |-> <<>>, email |-> <<>>, address |-> <<>>]

ExtractContact ==
    /\ contact_pc = "start"
    /\ contact' = extract_contact_info(html_content, business_phone)
    /\ contact_pc' = "done"
    /\ UNCHANGED business_phone

(***************************************************************************)
(* content_extractor.py : extract_logo_urls, extract_text_content and      *)
(* extract_business_content, which calls the five extractors in turn.      *)
(***************************************************************************)

\* the greatest position of a set of positions: where a greedy repetition
\* that is given back from the right ends up
last_of(positions) == CHOOSE k \in positions : \A l \in positions : l <= k

\* lines 128-131, with re.IGNORECASE:
\*   <img[^>]+ first ["'] value ["'] [^>]+ second ["'] value ["']
\* where the attribute src= has the group ([^"']+) for value and the other
\* attribute [^"']*logo[^"']*.  The greedy [^>]+ are given back from the right.
logo_pattern(s, i, first, second) ==
    LET o == lit_i(s, i, "<img")
        NotGt == [set |-> {">"}, neg |-> TRUE]
        value(a) == SubSeq(s, a.v, a.e - 1)
        good(a, name) == /\ a.v # 0
                         /\ IF name = "src=" THEN a.e > a.v
                            ELSE Contains(lower(value(a)), "logo")
        seconds(k) == {j \in (attribute(s, k, first).e + 2)
                               ..run_end(s, attribute(s, k, first).e + 1, NotGt) :
                           good(attribute(s, j, second), second)}
        firsts == {k \in (o + 1)..run_end(s, o, NotGt) :
                       good(attribute(s, k, first), first) /\ seconds(k) # {}}
        found(k1, k2) ==
            [end |-> attribute(s, k2, second).e + 1,
             cap |-> value(attribute(s, IF first = "src=" THEN k1 ELSE k2, "src="))]
        given(k1) == found(k1, last_of(seconds(k1)))
    IN  IF o = 0 \/ firsts = {} THEN NoMatch ELSE given(last_of(firsts))

\* lines 127-137: the matches of the five logo_patterns, in the order of the
\* two loops.  The fifth pattern (line 132) is
\*   <a[^>]+class=["'][^"']*logo[^"']*["'][^>]*>\s*<img[^>]+src=["']([^"']+)["']
logo_matches(s) ==
    LET NotGt == [set |-> {">"}, neg |-> TRUE]
        class_at(k) == attribute(s, k, "class=")
        src_at(k) == attribute(s, k, "src=")
        img(k) == lit_i(s, many(s, lit(s, many(s, class_at(k).e + 1, NotGt), ">"),
                                ClassSpace), "<img")
        srcs(k) == {j \in (img(k) + 1)..run_end(s, img(k), NotGt) :
                        src_at(j).e > src_at(j).v}
        link(i) ==
            LET o == lit_i(s, i, "<a")
                ks == {k \in (o + 1)..run_end(s, o, NotGt) :
                          /\ class_at(k).v # 0
                          /\ Contains(lower(SubSeq(s, class_at(k).v, class_at(k).e - 1)),
                                      "logo")
                          /\ img(k) # 0
                          /\ srcs(k) # {}}
                found(a) == [end |-> a.e + 1, cap |-> SubSeq(s, a.v, a.e - 1)]
            IN  IF o = 0 \/ ks = {} THEN NoMatch
                ELSE found(src_at(last_of(srcs(last_of(ks)))))
        positions == 1..Len(s)
    IN  findall([i \in positions |-> logo_pattern(s, i, "class=", "src=")])
        \o findall([i \in positions |-> logo_pattern(s, i, "src=", "class=")])
        \o findall([i \in positions |-> logo_pattern(s, i, "alt=", "src=")])
        \o findall([i \in positions |-> logo_pattern(s, i, "id=", "src=")])
        \o findall([i \in positions |-> link(i)])

\* re.sub(pattern, repl, s) from position i: m[k] is the match of the pattern
\* at position k and starts the set of the positions where it matches
RECURSIVE sub_from(_, _, _, _, _)
sub_from(m, starts, s, i, repl) ==
    IF \A j \in starts : j < i THEN SubSeq(s, i, Len(s))
    ELSE LET k == CHOOSE j \in starts : j >= i /\ \A l \in starts : l >= i => j <= l
         IN  SubSeq(s, i, k - 1) \o repl \o sub_from(m, starts, s, m[k].end, repl)

\* lines 172-176 and 183-187: group 1 of
\*   re.search((?:k1|k2|...)[\s:]*([^.]{50,500}), s, IGNORECASE | DOTALL)
\* where each keyword is a sequence of words separated by \s+; "" when the
\* pattern matches nowhere
section_match(s, keywords) ==
    LET word(i, w) == lit_i(s, some(s, i, ClassSpace), w)
        keyword_end(i, ws) ==
            IF Len(ws) = 1 THEN lit_i(s, i, ws[1])
            ELSE IF Len(ws) = 2 THEN word(lit_i(s, i, ws[1]), ws[2])
            ELSE word(word(lit_i(s, i, ws[1]), ws[2]), ws[3])
        room(e) == run_end(s, e, [set |-> {"."}, neg |-> TRUE]) - e
        matching(i) == {k \in DOMAIN keywords :
                           /\ keyword_end(i, keywords[k]) # 0
                           /\ room(keyword_end(i, keywords[k])) >= 50}
        starts == {i \in 1..Len(s) : matching(i) # {}}
        group(e) ==
            LET g == Min(run_end(s, e, [set |-> ClassSpace.set \cup {":"}, neg |-> FALSE]),
                         e + room(e) - 50)
            IN  SubSeq(s, g, g + Min(500, e + room(e) - g) - 1)
        at(i) == group(keyword_end(i, keywords[CHOOSE k \in matching(i) :
                                                   \A l \in matching(i) : k <= l]))
    IN  IF starts = {} THEN ""
        ELSE at(CHOOSE i \in starts : \A j \in starts : i <= j)

\* lines 146-194
extract_text_content(html) ==
    LET NotGt == [set |-> {">"}, neg |-> TRUE]
        replace(m, s, repl) == sub_from(m, {j \in DOMAIN m : m[j].end # 0}, s, 1, repl)
        \* <name[^>]*>.*?</name>  at i
        element(s, i, name) ==
            LET open == lit(s, many(s, lit_i(s, i, "<" \o name), NotGt), ">")
                closes == {j \in open..Len(s) : lit_i(s, j, "</" \o name \o ">") # 0}
            IN  IF open = 0 \/ closes = {} THEN NoMatch
                ELSE [end |-> lit_i(s, CHOOSE j \in closes : \A l \in closes : j <= l,
                                    "</" \o name \o ">")]
        without(s, name) == replace([i \in 1..Len(s) |-> element(s, i, name)], s, "")
        \* <[^>]+>  and  \s+
        untagged(s) == replace([i \in 1..Len(s) |->
                                   [end |-> lit(s, some(s, lit(s, i, "<"), NotGt), ">")]],
                               s, " ")
        collapsed(s) == replace([i \in 1..Len(s) |-> [end |-> some(s, i, ClassSpace)]],
                                s, " ")
        clean(s) == strip(collapsed(untagged(s)))
    IN  [full_text |-> take(clean(without(without(html, "script"), "style")), 5000),
         about |-> take(clean(section_match(html, << <<"about", "us">>, <<"about">>,
                                                     <<"who", "we", "are">>,
                                                     <<"our", "story">> >>)), 500),
         services |-> take(clean(section_match(html, << <<"our", "services">>,
                                                        <<"services">>,
                                                        <<"what", "we", "do">>,
                                                        <<"offerings">> >>)), 500),
         contact |-> ""]

(***************************************************************************)
(* One call extract_business_content(html_content, base_url,               *)
(* business_phone): html_content, base_url and business_phone are the      *)
(* variables of those names, and img_html = html_content.  ext_pc is the   *)
(* position in lines 321-350, "raised" after an exception has left the     *)
(* function, which has no handler.                                         *)
(***************************************************************************)
ExtractInputs ==
    UNION {FragmentsOf({"<img src=\"http://[x\">",
                        "<img class='site-logo' src='/logo.png'>",
                        "<a class=\"logo\" href=\"/\"> <img src=\"//[cdn/l.png\"></a>",
                        "<h2>About us</h2><p>We are a family firm of plumbers in Leeds and Bradford since 1999</p>",
                        "<style>a { color: #1a2b3c }</style>",
                        "<img src='pixel.gif'><img id=\"Logo\" src=\"l.png\" alt=\"x\">",
                        "call 020 7946 0958 now"}, "", n) : n \in 0..MaxExtractFrags}

VARIABLES ext_pc, logos, text_content, result

extVars == <<ext_pc, logos, text_content, result>>

\* at is "start" when extract_business_content is called, "idle" when it is not
ExtractInit(at) ==
    /\ ext_pc = at
    /\ logos = <<>>
    /\ text_content = <<>>
    /\ result = <<>>

\* line 322: extract_logo_urls, lines 124-143
ExtractLogos ==
    /\ ext_pc = "start"
    /\ colors_pc = "done"
    /\ LET matches == logo_matches(html_content)
       IN  IF \E i \in DOMAIN matches : urljoin_raises(matches[i])
           THEN ext_pc' = "raised" /\ UNCHANGED logos
           ELSE /\ ext_pc' = "logos"
                /\ logos' = Counter([i \in DOMAIN matches |->
                                        urljoin(base_url, matches[i])]).keys
    /\ UNCHANGED <<text_content, result>>

\* line 323
ExtractText ==
    /\ ext_pc = "logos"
    /\ text_content' = extract_text_content(html_content)
    /\ ext_pc' = "text"
    /\ UNCHANGED <<logos, result>>

\* lines 327-350
BuildResult ==
    /\ ext_pc = "contact"
    /\ images_pc = "done"
    /\ result' = <<[colors |-> color_result,
                    logos |-> logos,
                    text_content |-> text_content,
                    contact |-> contact,
                    images |-> images,
                    metadata |->
                        [total_colors_found |-> Len(color_result),
                         total_images_found |-> Len(images),
                         has_logo |-> Len(logos) > 0,
                         has_about_section |-> Len(text_content.about) > 50,
                         has_services_section |-> Len(text_content.services) > 50,
                         has_contact_info |->
                             ~(falsy(contact.phone) /\ falsy(contact.email)
                               /\ falsy(contact.address))]]>>
    /\ ext_pc' = "done"
    /\ UNCHANGED <<logos, text_content>>

(***************************************************************************)
(* website_scraper.py : scrape_business_website, that is                   *)
(* WebsiteContentScraper(url).scrape_all() with fetch_website and          *)
(* fetch_external_css.  get_count counts the calls requests.get(self.url), *)
(* css_requests lists the calls requests.get(css_url) with their outcome,  *)
(* soup holds what fetch_external_css reads of self.soup, the stylesheet   *)
(* links, and scraped is <<>> for the empty dict and <<d>> for the dict d, *)
(* of which the keys read by generate_templates_for_business are kept.     *)
(***************************************************************************)

\* line 446: soup.find_all('link', rel='stylesheet') for markup whose tags
\* are written <link name="value" ...>: the href (<<>> when it has none) of
\* every link tag whose rel has the token stylesheet, in document order
link_tags(s) ==
    LET NotGt == [set |-> {">"}, neg |-> TRUE]
        named(i, name) ==
            LET ks == {k \in i..run_end(s, i, NotGt) :
                          /\ in_class(CharAt(s, k - 1), ClassSpace)
                          /\ attribute(s, k, name).v # 0}
                a == attribute(s, CHOOSE k \in ks : \A l \in ks : k <= l, name)
            IN  IF ks = {} THEN <<>> ELSE <<SubSeq(s, a.v, a.e - 1)>>
        is_sheet(rel) == rel # <<>> /\ Contains(" " \o rel[1] \o " ", " stylesheet ")
        tag(i) ==
            IF lit_i(s, i, "<link") # 0 /\ is_sheet(named(lit_i(s, i, "<link"), "rel="))
            THEN [end |-> run_end(s, i, NotGt), cap |-> named(i + 5, "href=")]
            ELSE NoMatch
    IN  findall([i \in 1..Len(s) |-> tag(i)])

ScrapePages ==
    UNION {FragmentsOf({"<link rel=\"stylesheet\" href=\"/a.css\">",
                        "<link rel=\"stylesheet\">",
                        "<link rel=\"icon\" href=\"/f.ico\">",
                        "<LINK href=\"http://[x\" rel=\"alternate stylesheet\">",
                        "<link rel='stylesheet' href='s1.css'><link rel='stylesheet' href='s2.css'><link rel='stylesheet' href='s3.css'><link rel='stylesheet' href='s4.css'>",
                        "<p>Emergency plumber in Leeds</p>"}, "", n) :
               n \in 0..MaxPageFrags}

VARIABLES url, response, scrape_pc, html, soup, get_count, link_index,
          css_requests, combined_css, scraped

scrapeVars == <<url, response, scrape_pc, html, soup, get_count, link_index,
                css_requests, combined_css, scraped>>

\* lines 35-39 and 522-525; at is "fetch" when scrape_business_website is
\* called, "idle" when it is not; response is the markup the site serves when
\* it answers
ScrapeInit(at, urls, pages) ==
    /\ url \in urls
    /\ response \in pages
    /\ scrape_pc = at
    /\ html = <<>>
    /\ soup = <<>>
    /\ get_count = 0
    /\ link_index = 1
    /\ css_requests = <<>>
    /\ combined_css = ""
    /\ scraped = <<>>

\* lines 40-56 and 478-481: one requests.get; a timeout, a connection or DNS
\* error, an HTTP error status and a parse error all end in the except
\* clause, and scrape_all returns {}.  The mutant tries a second time.
FetchWebsite_mut ==
    /\ scrape_pc = "fetch"
    /\ get_count' = get_count + 1
    /\ \E outcome \in {"ok", "timeout", "dns", "http_error", "parse_error"} :
           IF outcome = "ok"
           THEN html' = <<response>> /\ soup' = link_tags(response) /\ scrape_pc' = "css"
           ELSE UNCHANGED <<html, soup>> /\ scrape_pc' = IF get_count = 0 THEN "fetch" ELSE "done"
    /\ UNCHANGED <<url, response, link_index, css_requests, combined_css, scraped>>

FetchWebsite ==
    /\ scrape_pc = "fetch"
    /\ get_count' = get_count + 1
    /\ \E outcome \in {"ok", "timeout", "dns", "http_error", "parse_error"} :
           IF outcome = "ok"
           THEN html' = <<response>> /\ soup' = link_tags(response) /\ scrape_pc' = "css"
           ELSE UNCHANGED <<html, soup>> /\ scrape_pc' = "done"
    /\ UNCHANGED <<url, response, link_index, css_requests, combined_css, scraped>>

\* lines 448-464: one iteration of the loop over link_tags[:5].  A tag without
\* href is passed over; an href that urljoin rejects ends the loop in the outer
\* except clause; otherwise one request is made, whose failure is logged.
\* The mutant leaves the loop when a request fails.
FetchCss_mut ==
    LET tags == take(soup, 5)
        href == tags[link_index]
        css_url == urljoin(url, href[1])
    IN  /\ scrape_pc = "css"
        /\ link_index <= Len(tags)
        /\ IF falsy(href)
           THEN link_index' = link_index + 1 /\ UNCHANGED <<css_requests, combined_css>>
           ELSE IF urljoin_raises(href[1])
           THEN link_index' = Len(tags) + 1 /\ UNCHANGED <<css_requests, combined_css>>
           ELSE \E ok \in BOOLEAN :
                    /\ css_requests' = Append(css_requests, [url |-> css_url, ok |-> ok])
                    /\ combined_css' =
                           IF ok THEN combined_css \o "\n/* CSS from " \o css_url
                                      \o " */\n" \o "h1{color:#1a2b3c}"
                           ELSE combined_css
                    /\ link_index' = IF ok THEN link_index + 1 ELSE Len(tags) + 1
        /\ UNCHANGED <<url, response, scrape_pc, html, soup, get_count, scraped>>

FetchCss ==
    LET tags == take(soup, 5)
        href == tags[link_index]
        css_url == urljoin(url, href[1])
    IN  /\ scrape_pc = "css"
        /\ link_index <= Len(tags)
        /\ IF falsy(href)
           THEN link_index' = link_index + 1 /\ UNCHANGED <<css_requests, combined_css>>
           ELSE IF urljoin_raises(href[1])
           THEN link_index' = Len(tags) + 1 /\ UNCHANGED <<css_requests, combined_css>>
           ELSE \E ok \in BOOLEAN :
                    /\ css_requests' = Append(css_requests, [url |-> css_url, ok |-> ok])
                    /\ combined_css' =
                           IF ok THEN combined_css \o "\n/* CSS from " \o css_url
                                      \o " */\n" \o "h1{color:#1a2b3c}"
                           ELSE combined_css
                    /\ link_index' = link_index + 1
        /\ UNCHANGED <<url, response, scrape_pc, html, soup, get_count, scraped>>

\* lines 466-509: fetch_external_css returns and scrape_all builds its dict;
\* soup.get_text() is the markup without its tags
ReturnScrape ==
    LET tag == [i \in 1..Len(html[1]) |->
                   [end |-> lit(html[1], some(html[1], lit(html[1], i, "<"),
                                              [set |-> {">"}, neg |-> TRUE]), ">")]]
    IN  /\ scrape_pc = "css"
        /\ link_index > Len(take(soup, 5))
        /\ scraped' =
               <<[url |-> url,
                  raw_html |-> html[1] \o "\n<style>\n" \o combined_css \o "\n</style>",
                  text_content |->
                      take(sub_from(tag, {i \in DOMAIN tag : tag[i].end # 0},
                                    html[1], 1, ""), 5000)]>>
        /\ scrape_pc' = "done"
        /\ UNCHANGED <<url, response, html, soup, get_count, link_index, css_requests, combined_css>>

(***************************************************************************)
(* gap_analyzer.py : the five checks and analyze_website_gaps.  Every      *)
(* pattern but one is searched with re.IGNORECASE and is written in lower  *)
(* case, so it is searched in html_content.lower(), called t below.        *)
(***************************************************************************)

\* re.search of  w1\s+w2\s+w3  (spaces = 1) or  w1\s*w2\s*w3  (spaces = 0)
\* for one, two or three literal words
has_phrase(t, words, spaces) ==
    LET gap(i) == IF i = 0 \/ run_end(t, i, ClassSpace) < i + spaces THEN 0
                  ELSE run_end(t, i, ClassSpace)
        word(i, k) == IF k > Len(words) THEN i ELSE lit(t, gap(i), words[k])
    IN  \E i \in 1..Len(t) : word(word(lit(t, i, words[1]), 2), 3) # 0

\* the elements of a list of (condition, item) pairs whose condition holds:
\* what a sequence of  if condition: items.append(item)  leaves in items
items_if(pairs) ==
    concat([k \in DOMAIN pairs |-> IF pairs[k][1] THEN <<pairs[k][2]>> ELSE <<>>])

\* lines 25-80
\* The first mutant reports a score of 100 as low; the second takes 20 off, not
\* 30, for missing media queries; the third counts a score of 70 as high.
check_mobile_responsiveness_mut3(content) ==
    LET NotGt == [set |-> {">"}, neg |-> TRUE]
        \* <meta[^>]+name=["']viewport["'][^>]*>
        viewport(t) ==
            \E i \in 1..Len(t) :
                /\ lit(t, i, "<meta") # 0
                /\ \E k \in (i + 6)..run_end(t, i + 5, NotGt) :
                       LET a == lit(t, k, "name=")
                           b == lit(t, a + 1, "viewport")
                       IN  /\ a # 0 /\ CharAt(t, a) \in Quotes
                           /\ b # 0 /\ CharAt(t, b) \in Quotes
                           /\ CharAt(t, run_end(t, b + 1, NotGt)) = ">"
        \* @media[^{]+\([^)]*\)
        media(t) ==
            \E i \in 1..Len(t) :
                /\ lit(t, i, "@media") # 0
                /\ \E k \in (i + 7)..run_end(t, i + 6, [set |-> {"{"}, neg |-> TRUE]) :
                       /\ CharAt(t, k) = "("
                       /\ CharAt(t, run_end(t, k + 1, [set |-> {")"}, neg |-> TRUE])) = ")"
        framework(t) ==
            \E w \in {"bootstrap", "tailwind", "foundation", "mobile", "responsive"} :
                Contains(t, w)
        report(has_viewport, has_media_queries, has_mobile_framework) ==
            LET score == 100 - (IF has_viewport THEN 0 ELSE 40)
                             - (IF has_media_queries THEN 0 ELSE 30)
                             - (IF has_mobile_framework THEN 0 ELSE 20)
            IN  [score |-> IF score < 0 THEN 0 ELSE score,
                 has_viewport |-> has_viewport,
                 has_media_queries |-> has_media_queries,
                 has_mobile_framework |-> has_mobile_framework,
                 issues |-> items_if(<<
                     <<~has_viewport, "Missing viewport meta tag for mobile devices">>,
                     <<~has_media_queries,
                       "No CSS media queries detected (likely not responsive)">>,
                     <<~has_mobile_framework,
                       "No mobile-friendly CSS framework detected">> >>),
                 severity |-> IF score < 40 THEN "critical"
                              ELSE IF score < 70 THEN "high"
                              ELSE IF score < 100 THEN "medium" ELSE "low"]
        checked(t) == report(viewport(t), media(t), framework(t))
    IN  checked(lower(content))

check_mobile_responsiveness_mut2(content) ==
    LET NotGt == [set |-> {">"}, neg |-> TRUE]
        \* <meta[^>]+name=["']viewport["'][^>]*>
        viewport(t) ==
            \E i \in 1..Len(t) :
                /\ lit(t, i, "<meta") # 0
                /\ \E k \in (i + 6)..run_end(t, i + 5, NotGt) :
                       LET a == lit(t, k, "name=")
                           b == lit(t, a + 1, "viewport")
                       IN  /\ a # 0 /\ CharAt(t, a) \in Quotes
                           /\ b # 0 /\ CharAt(t, b) \in Quotes
                           /\ CharAt(t, run_end(t, b + 1, NotGt)) = ">"
        \* @media[^{]+\([^)]*\)
        media(t) ==
            \E i \in 1..Len(t) :
                /\ lit(t, i, "@media") # 0
                /\ \E k \in (i + 7)..run_end(t, i + 6, [set |-> {"{"}, neg |-> TRUE]) :
                       /\ CharAt(t, k) = "("
                       /\ CharAt(t, run_end(t, k + 1, [set |-> {")"}, neg |-> TRUE])) = ")"
        framework(t) ==
            \E w \in {"bootstrap", "tailwind", "foundation", "mobile", "responsive"} :
                Contains(t, w)
        report(has_viewport, has_media_queries, has_mobile_framework) ==
            LET score == 100 - (IF has_viewport THEN 0 ELSE 40)
                             - (IF has_media_queries THEN 0 ELSE 20)
                             - (IF has_mobile_framework THEN 0 ELSE 20)
            IN  [score |-> IF score < 0 THEN 0 ELSE score,
                 has_viewport |-> has_viewport,
                 has_media_queries |-> has_media_queries,
                 has_mobile_framework |-> has_mobile_framework,
                 issues |-> items_if(<<
                     <<~has_viewport, "Missing viewport meta tag for mobile devices">>,
                     <<~has_media_queries,
                       "No CSS media queries detected (likely not responsive)">>,
                     <<~has_mobile_framework,
                       "No mobile-friendly CSS framework detected">> >>),
                 severity |-> IF score < 40 THEN "critical"
                              ELSE IF score < 70 THEN "high" ELSE "medium"]
        checked(t) == report(viewport(t), media(t), framework(t))
    IN  checked(lower(content))

check_mobile_responsiveness_mut(content) ==
    LET NotGt == [set |-> {">"}, neg |-> TRUE]
        \* <meta[^>]+name=["']viewport["'][^>]*>
        viewport(t) ==
            \E i \in 1..Len(t) :
                /\ lit(t, i, "<meta") # 0
                /\ \E k \in (i + 6)..run_end(t, i + 5, NotGt) :
                       LET a == lit(t, k, "name=")
                           b == lit(t, a + 1, "viewport")
                       IN  /\ a # 0 /\ CharAt(t, a) \in Quotes
                           /\ b # 0 /\ CharAt(t, b) \in Quotes
                           /\ CharAt(t, run_end(t, b + 1, NotGt)) = ">"
        \* @media[^{]+\([^)]*\)
        media(t) ==
            \E i \in 1..Len(t) :
                /\ lit(t, i, "@media") # 0
                /\ \E k \in (i + 7)..run_end(t, i + 6, [set |-> {"{"}, neg |-> TRUE]) :
                       /\ CharAt(t, k) = "("
                       /\ CharAt(t, run_end(t, k + 1, [set |-> {")"}, neg |-> TRUE])) = ")"
        framework(t) ==
            \E w \in {"bootstrap", "tailwind", "foundation", "mobile", "responsive"} :
                Contains(t, w)
        report(has_viewport, has_media_queries, has_mobile_framework) ==
            LET score == 100 - (IF has_viewport THEN 0 ELSE 40)
                             - (IF has_media_queries THEN 0 ELSE 30)
                             - (IF has_mobile_framework THEN 0 ELSE 20)
            IN  [score |-> IF score < 0 THEN 0 ELSE score,
                 has_viewport |-> has_viewport,
                 has_media_queries |-> has_media_queries,
                 has_mobile_framework |-> has_mobile_framework,
                 issues |-> items_if(<<
                     <<~has_viewport, "Missing viewport meta tag for mobile devices">>,
                     <<~has_media_queries,
                       "No CSS media queries detected (likely not responsive)">>,
                     <<~has_mobile_framework,
                       "No mobile-friendly CSS framework detected">> >>),
                 severity |-> IF score < 40 THEN "critical"
                              ELSE IF score <= 70 THEN "high" ELSE "medium"]
        checked(t) == report(viewport(t), media(t), framework(t))
    IN  checked(lower(content))

check_mobile_responsiveness(content) ==
    LET NotGt == [set |-> {">"}, neg |-> TRUE]
        \* <meta[^>]+name=["']viewport["'][^>]*>
        viewport(t) ==
            \E i \in 1..Len(t) :
                /\ lit(t, i, "<meta") # 0
                /\ \E k \in (i + 6)..run_end(t, i + 5, NotGt) :
                       LET a == lit(t, k, "name=")
                           b == lit(t, a + 1, "viewport")
                       IN  /\ a # 0 /\ CharAt(t, a) \in Quotes
                           /\ b # 0 /\ CharAt(t, b) \in Quotes
                           /\ CharAt(t, run_end(t, b + 1, NotGt)) = ">"
        \* @media[^{]+\([^)]*\)
        media(t) ==
            \E i \in 1..Len(t) :
                /\ lit(t, i, "@media") # 0
                /\ \E k \in (i + 7)..run_end(t, i + 6, [set |-> {"{"}, neg |-> TRUE]) :
                       /\ CharAt(t, k) = "("
                       /\ CharAt(t, run_end(t, k + 1, [set |-> {")"}, neg |-> TRUE])) = ")"
        framework(t) ==
            \E w \in {"bootstrap", "tailwind", "foundation", "mobile", "responsive"} :
                Contains(t, w)
        report(has_viewport, has_media_queries, has_mobile_framework) ==
            LET score == 100 - (IF has_viewport THEN 0 ELSE 40)
                             - (IF has_media_queries THEN 0 ELSE 30)
                             - (IF has_mobile_framework THEN 0 ELSE 20)
            IN  [score |-> IF score < 0 THEN 0 ELSE score,
                 has_viewport |-> has_viewport,
                 has_media_queries |-> has_media_queries,
                 has_mobile_framework |-> has_mobile_framework,
                 issues |-> items_if(<<
                     <<~has_viewport, "Missing viewport meta tag for mobile devices">>,
                     <<~has_media_queries,
                       "No CSS media queries detected (likely not responsive)">>,
                     <<~has_mobile_framework,
                       "No mobile-friendly CSS framework detected">> >>),
                 severity |-> IF score < 40 THEN "critical"
                              ELSE IF score < 70 THEN "high" ELSE "medium"]
        checked(t) == report(viewport(t), media(t), framework(t))
    IN  checked(lower(content))

\* lines 83-149.  The mutant returns the score of line 134 without the clamp of
\* line 135.
check_design_modernity_mut(content) ==
    LET NotGt == [set |-> {">"}, neg |-> TRUE]
        starts(t, w) == {i \in 1..Len(t) : lit(t, i, w) # 0}
        \* var\(--[^)]+\)
        css_variables(t) ==
            \E i \in starts(t, "var(--") :
                CharAt(t, some(t, i + 6, [set |-> {")"}, neg |-> TRUE])) = ")"
        \* font-family:[^;]*(sans-serif|roboto|open\s+sans|lato|montserrat)
        modern_fonts(t) ==
            \E i \in starts(t, "font-family:") :
                \E k \in (i + 12)..run_end(t, i + 12, [set |-> {";"}, neg |-> TRUE]) :
                    \/ \E w \in {"sans-serif", "roboto", "lato", "montserrat"} :
                           lit(t, k, w) # 0
                    \/ lit(t, some(t, lit(t, k, "open"), ClassSpace), "sans") # 0
        \* <tag[^>]*>\s*  at i
        tag(t, i, name) == many(t, lit(t, many(t, lit(t, i, name), NotGt), ">"), ClassSpace)
        \* <table[^>]*>\s*<tr[^>]*>\s*<td[^>]*>.*?layout|design
        tables_layout(t) ==
            \/ Contains(t, "design")
            \/ \E i \in starts(t, "<table") :
                   LET td == lit(t, many(t, lit(t, tag(t, tag(t, i, "<table"), "<tr"),
                                                "<td"), NotGt), ">")
                   IN  /\ td # 0
                       /\ \E j \in starts(t, "layout") :
                              j >= td /\ ~Contains(SubSeq(t, td, j - 1), "\n")
        modern(t) ==
            <<has_phrase(t, <<"display:", "flex">>, 0),
              has_phrase(t, <<"display:", "grid">>, 0),
              css_variables(t),
              modern_fonts(t),
              has_phrase(t, <<"rgb", "(">>, 0) \/ has_phrase(t, <<"rgba", "(">>, 0),
              Contains(t, "transition:"),
              Contains(t, "@keyframes") \/ Contains(t, "animation:")>>
        outdated(t) ==
            << <<tables_layout(t), "Outdated: tables layout">>,
               <<Contains(t, "<frame"), "Outdated: frames">>,
               <<Contains(t, ".swf") \/ Contains(t, "flash"), "Outdated: flash">>,
               <<Contains(t, "<marquee"), "Outdated: marquee">>,
               <<\E i \in starts(t, "<font") : CharAt(t, run_end(t, i + 5, NotGt)) = ">",
                 "Outdated: font tags">>,
               <<Cardinality({i \in starts(content, "style=") :
                                  CharAt(content, i + 6) \in Quotes}) > 50,
                 "Outdated: inline styles heavy">>,
               <<Contains(t, "comic\\s+sans"), "Outdated: comic sans">> >>
        report(modern_indicators, outdated_issues) ==
            LET raw == modern_indicators * 10 - Len(outdated_issues) * 15
                score == raw
            IN  [score |-> score,
                 modern_indicators |-> modern_indicators,
                 outdated_indicators |-> Len(outdated_issues),
                 issues |-> outdated_issues \o items_if(<<
                     <<modern_indicators < 2, "Very few modern CSS features detected">>,
                     <<outdated_issues = <<>> /\ modern_indicators < 3,
                       "Design appears basic/minimal (not necessarily bad, but could be enhanced)">> >>),
                 severity |-> IF score < 30 THEN "critical"
                              ELSE IF score < 60 THEN "high"
                              ELSE IF score < 80 THEN "medium" ELSE "low"]
        checked(t) == report(Cardinality({k \in 1..7 : modern(t)[k]}),
                             items_if(outdated(t)))
    IN  checked(lower(content))

check_design_modernity(content) ==
    LET NotGt == [set |-> {">"}, neg |-> TRUE]
        starts(t, w) == {i \in 1..Len(t) : lit(t, i, w) # 0}
        \* var\(--[^)]+\)
        css_variables(t) ==
            \E i \in starts(t, "var(--") :
                CharAt(t, some(t, i + 6, [set |-> {")"}, neg |-> TRUE])) = ")"
        \* font-family:[^;]*(sans-serif|roboto|open\s+sans|lato|montserrat)
        modern_fonts(t) ==
            \E i \in starts(t, "font-family:") :
                \E k \in (i + 12)..run_end(t, i + 12, [set |-> {";"}, neg |-> TRUE]) :
                    \/ \E w \in {"sans-serif", "roboto", "lato", "montserrat"} :
                           lit(t, k, w) # 0
                    \/ lit(t, some(t, lit(t, k, "open"), ClassSpace), "sans") # 0
        \* <tag[^>]*>\s*  at i
        tag(t, i, name) == many(t, lit(t, many(t, lit(t, i, name), NotGt), ">"), ClassSpace)
        \* <table[^>]*>\s*<tr[^>]*>\s*<td[^>]*>.*?layout|design
        tables_layout(t) ==
            \/ Contains(t, "design")
            \/ \E i \in starts(t, "<table") :
                   LET td == lit(t, many(t, lit(t, tag(t, tag(t, i, "<table"), "<tr"),
                                                "<td"), NotGt), ">")
                   IN  /\ td # 0
                       /\ \E j \in starts(t, "layout") :
                              j >= td /\ ~Contains(SubSeq(t, td, j - 1), "\n")
        modern(t) ==
            <<has_phrase(t, <<"display:", "flex">>, 0),
              has_phrase(t, <<"display:", "grid">>, 0),
              css_variables(t),
              modern_fonts(t),
              has_phrase(t, <<"rgb", "(">>, 0) \/ has_phrase(t, <<"rgba", "(">>, 0),
              Contains(t, "transition:"),
              Contains(t, "@keyframes") \/ Contains(t, "animation:")>>
        outdated(t) ==
            << <<tables_layout(t), "Outdated: tables layout">>,
               <<Contains(t, "<frame"), "Outdated: frames">>,
               <<Contains(t, ".swf") \/ Contains(t, "flash"), "Outdated: flash">>,
               <<Contains(t, "<marquee"), "Outdated: marquee">>,
               <<\E i \in starts(t, "<font") : CharAt(t, run_end(t, i + 5, NotGt)) = ">",
                 "Outdated: font tags">>,
               <<Cardinality({i \in starts(content, "style=") :
                                  CharAt(content, i + 6) \in Quotes}) > 50,
                 "Outdated: inline styles heavy">>,
               <<Contains(t, "comic\\s+sans"), "Outdated: comic sans">> >>
        report(modern_indicators, outdated_issues) ==
            LET raw == modern_indicators * 10 - Len(outdated_issues) * 15
                score == IF raw < 0 THEN 0 ELSE IF raw > 100 THEN 100 ELSE raw
            IN  [score |-> score,
                 modern_indicators |-> modern_indicators,
                 outdated_indicators |-> Len(outdated_issues),
                 issues |-> outdated_issues \o items_if(<<
                     <<modern_indicators < 2, "Very few modern CSS features detected">>,
                     <<outdated_issues = <<>> /\ modern_indicators < 3,
                       "Design appears basic/minimal (not necessarily bad, but could be enhanced)">> >>),
                 severity |-> IF score < 30 THEN "critical"
                              ELSE IF score < 60 THEN "high"
                              ELSE IF score < 80 THEN "medium" ELSE "low"]
        checked(t) == report(Cardinality({k \in 1..7 : modern(t)[k]}),
                             items_if(outdated(t)))
    IN  checked(lower(content))

\* lines 150-230; business_name is not read
check_seo_basics(content, business_name) ==
    LET NotGt == [set |-> {">"}, neg |-> TRUE]
        NotQuote == [set |-> Quotes, neg |-> TRUE]
        RECURSIVE str(_)
        str(n) == IF n < 10 THEN SubSeq("0123456789", n + 1, n + 1)
                  ELSE str(n \div 10) \o str(n % 10)
        \* <name[^>]*>  at i
        open(t, i, name) == lit(t, many(t, lit(t, i, name), NotGt), ">")
        \* <title[^>]*>([^<]+)</title>  at i: the positions of the group
        title(t, i) ==
            LET g == open(t, i, "<title")
                e == some(t, g, [set |-> {"<"}, neg |-> TRUE])
            IN  IF lit(t, e, "</title>") # 0 THEN [end |-> e, cap |-> <<g, e - 1>>]
                ELSE NoMatch
        \* <meta[^>]+name=["']description["'][^>]*content=["']([^"']{20,})["']
        description(t) ==
            \E i \in 1..Len(t) :
                /\ lit(t, i, "<meta") # 0
                /\ \E k \in (i + 6)..run_end(t, i + 5, NotGt) :
                       LET a == lit(t, k, "name=")
                           b == lit(t, a + 1, "description")
                       IN  /\ a # 0 /\ CharAt(t, a) \in Quotes
                           /\ b # 0 /\ CharAt(t, b) \in Quotes
                           /\ \E c \in (b + 1)..run_end(t, b + 1, NotGt) :
                                  LET v == lit(t, c, "content=")
                                  IN  /\ v # 0 /\ CharAt(t, v) \in Quotes
                                      /\ run_end(t, v + 1, NotQuote) >= v + 21
                                      /\ CharAt(t, run_end(t, v + 1, NotQuote)) \in Quotes
        \* <img(?![^>]*alt=)[^>]*>  at i
        image(t, i) ==
            LET o == lit(t, i, "<img")
            IN  IF /\ o # 0
                   /\ \A k \in o..run_end(t, o, NotGt) : lit(t, k, "alt=") = 0
                THEN [end |-> open(t, i, "<img"), cap |-> i] ELSE NoMatch
        titles(t) == findall([i \in 1..Len(t) |-> title(t, i)])
        title_text(found) == IF found = <<>> THEN ""
                             ELSE SubSeq(content, found[1][1], found[1][2])
        report(has_title, text, has_meta_description, h1_count, has_h2,
               images_without_alt, has_schema) ==
            LET short == ~has_title \/ Len(strip(text)) < 10
                score == 100 - (IF short THEN 20 ELSE IF Len(text) > 60 THEN 5 ELSE 0)
                             - (IF has_meta_description THEN 0 ELSE 20)
                             - (IF h1_count = 0 THEN 15 ELSE IF h1_count > 1 THEN 5 ELSE 0)
                             - (IF has_h2 THEN 0 ELSE 10)
                             - (IF images_without_alt > 3 THEN 15 ELSE 0)
                             - (IF has_schema THEN 0 ELSE 15)
            IN  [score |-> IF score < 0 THEN 0 ELSE score,
                 has_title |-> has_title,
                 has_meta_description |-> has_meta_description,
                 h1_count |-> h1_count,
                 has_schema |-> has_schema,
                 images_without_alt |-> images_without_alt,
                 issues |-> items_if(<<
                     <<short, "Missing or too-short title tag">>,
                     <<~short /\ Len(text) > 60, "Title tag too long (>60 chars)">>,
                     <<~has_meta_description, "Missing meta description">>,
                     <<h1_count = 0, "No H1 heading found">>,
                     <<h1_count > 1, "Multiple H1 headings (should be only one)">>,
                     <<~has_h2, "No H2 headings found (poor content structure)">>,
                     <<images_without_alt > 3,
                       str(images_without_alt) \o " images missing alt attributes">>,
                     <<~has_schema, "No schema.org structured data found">> >>),
                 severity |-> IF score < 50 THEN "high"
                              ELSE IF score < 75 THEN "medium" ELSE "low"]
        checked(t) ==
            report(titles(t) # <<>>, title_text(titles(t)), description(t),
                   Len(findall([i \in 1..Len(t) |->
                                   [end |-> open(t, i, "<h1"), cap |-> i]])),
                   \E i \in 1..Len(t) : open(t, i, "<h2") # 0,
                   Len(findall([i \in 1..Len(t) |-> image(t, i)])),
                   \E w \in {"schema.org", "itemtype=", "@type"} : Contains(t, w))
    IN  checked(lower(content))

\* lines 233-298
check_performance_indicators(content) ==
    LET NotGt == [set |-> {">"}, neg |-> TRUE]
        RECURSIVE str(_)
        str(n) == IF n < 10 THEN SubSeq("0123456789", n + 1, n + 1)
                  ELSE str(n \div 10) \o str(n % 10)
        \* n / d rounded to the nearest integer, a tie to the even one
        rounded(n, d) == IF 2 * (n % d) > d \/ (2 * (n % d) = d /\ (n \div d) % 2 = 1)
                         THEN n \div d + 1 ELSE n \div d
        \* <name[^>]+word  at i, word being the last one of the run
        resource(t, i, name, word) ==
            LET o == lit(t, i, name)
                ks == {k \in (o + 1)..run_end(t, o, NotGt) : lit(t, k, word) # 0}
            IN  IF o = 0 \/ ks = {} THEN NoMatch ELSE [end |-> lit(t, last_of(ks), word), cap |-> i]
        sheet(t, i) ==
            LET o == lit(t, i, "<link")
                ks == {k \in (o + 1)..run_end(t, o, NotGt) :
                          \E q \in Quotes : lit(t, k, "rel=" \o q \o "stylesheet") # 0
                                            /\ CharAt(t, k + 15) \in Quotes}
            IN  IF o = 0 \/ ks = {} THEN NoMatch ELSE [end |-> last_of(ks) + 16, cap |-> i]
        size == Len(content)
        report(script_count, stylesheet_count, has_lazy_loading, is_minified) ==
            LET score == 100 - (IF size > 500 * 1024 THEN 20
                                ELSE IF size > 200 * 1024 THEN 10 ELSE 0)
                             - (IF script_count > 10 THEN 15 ELSE 0)
                             - (IF stylesheet_count > 5 THEN 10 ELSE 0)
                             - (IF has_lazy_loading THEN 0 ELSE 10)
                             - (IF is_minified THEN 0 ELSE 10)
            IN  [score |-> IF score < 0 THEN 0 ELSE score,
                 \* round(page_size_kb, 1), in tenths of a KB
                 page_size_kb |-> rounded(10 * size, 1024),
                 script_count |-> script_count,
                 stylesheet_count |-> stylesheet_count,
                 has_lazy_loading |-> has_lazy_loading,
                 is_minified |-> is_minified,
                 issues |-> items_if(<<
                     <<size > 500 * 1024,
                       "Large HTML size (" \o str(rounded(size, 1024)) \o "KB)">>,
                     <<size <= 500 * 1024 /\ size > 200 * 1024,
                       "Moderate HTML size (" \o str(rounded(size, 1024)) \o "KB)">>,
                     <<script_count > 10,
                       "Many external scripts (" \o str(script_count) \o ")">>,
                     <<stylesheet_count > 5,
                       "Many external stylesheets (" \o str(stylesheet_count) \o ")">>,
                     <<~has_lazy_loading, "No lazy loading detected for images">>,
                     <<~is_minified,
                       "HTML not minified (contains comments/excess whitespace)">> >>),
                 severity |-> IF score < 50 THEN "high"
                              ELSE IF score < 75 THEN "medium" ELSE "low"]
        checked(t) ==
            report(Len(findall([i \in 1..Len(t) |-> resource(t, i, "<script", "src=")])),
                   Len(findall([i \in 1..Len(t) |-> sheet(t, i)])),
                   \/ Contains(t, "lazy-load")
                   \/ \E q1 \in Quotes, q2 \in Quotes :
                          Contains(t, "loading=" \o q1 \o "lazy" \o q2),
                   /\ ~Contains(take(content, 1000), "<!--")
                   /\ ~Contains(take(content, 1000), "\n\n"))
    IN  checked(lower(content))

\* lines 301-363
check_missing_sections(content, business_type) ==
    LET NotGt == [set |-> {">"}, neg |-> TRUE]
        starts(t, w) == {i \in 1..Len(t) : lit(t, i, w) # 0}
        any(t, phrases) == \E p \in phrases : has_phrase(t, p, 1)
        \* a.*b  where . does not match a newline
        same_line(t, a, b) ==
            \E i \in starts(t, a) : \E j \in starts(t, b) :
                j >= i + Len(a) /\ ~Contains(SubSeq(t, i + Len(a), j - 1), "\n")
        \* <form[^>]*>.*?(?:email|phone|name|message)  with re.DOTALL
        contact_form(t) ==
            \E i \in starts(t, "<form") :
                LET e == lit(t, run_end(t, i + 5, NotGt), ">")
                IN  /\ e # 0
                    /\ \E w \in {"email", "phone", "name", "message"} :
                           Contains(SubSeq(t, e, Len(t)), w)
        \* <button|<a[^>]+class=["'][^"']*btn[^"']*["']
        call_to_action(t) ==
            \/ Contains(t, "<button")
            \/ \E i \in starts(t, "<a") :
                   \E k \in (i + 3)..run_end(t, i + 2, NotGt) :
                       LET a == attribute(t, k, "class=")
                       IN  a.v # 0 /\ Contains(SubSeq(t, a.v, a.e - 1), "btn")
        universal(t) ==
            << <<~contact_form(t), "Missing contact form">>,
               <<~any(t, {<<"testimonial">>, <<"review">>, <<"customer", "says">>,
                          <<"feedback">>}), "Missing testimonials">>,
               <<~any(t, {<<"about", "us">>, <<"who", "we", "are">>, <<"our", "story">>,
                          <<"our", "team">>}), "Missing about">>,
               <<~call_to_action(t), "Missing call to action">> >>
        specific(t) ==
            IF business_type = "restaurant"
            THEN << <<~any(t, {<<"menu">>, <<"food">>, <<"dishes">>, <<"cuisine">>}),
                      "Missing business-specific: menu">>,
                    <<~any(t, {<<"reserv">>, <<"book", "table">>, <<"book", "now">>}),
                      "Missing business-specific: reservation">>,
                    <<~(\/ same_line(t, "google", "map")
                        \/ same_line(t, "map", "embed")
                        \/ Contains(t, "location")),
                      "Missing business-specific: location map">> >>
            ELSE IF business_type = "home_services"
            THEN << <<~any(t, {<<"service", "area">>, <<"we", "serve">>, <<"coverage">>}),
                      "Missing business-specific: service area">>,
                    <<~any(t, {<<"emergency">>, <<"24/7">>, <<"247">>, <<"urgent">>}),
                      "Missing business-specific: emergency contact">>,
                    <<~any(t, {<<"licensed">>, <<"insured">>, <<"certified">>,
                               <<"accredited">>}),
                      "Missing business-specific: certifications">> >>
            ELSE IF business_type = "professional"
            THEN << <<~any(t, {<<"education">>, <<"degree">>, <<"certified">>,
                               <<"licensed">>, <<"bar", "admission">>}),
                      "Missing business-specific: credentials">>,
                    <<~any(t, {<<"case", "study">>, <<"case", "studies">>, <<"portfolio">>,
                               <<"work">>, <<"results">>}),
                      "Missing business-specific: case studies">>,
                    <<~any(t, {<<"consultation">>, <<"free", "consult">>,
                               <<"schedule", "appointment">>}),
                      "Missing business-specific: consultation">> >>
            ELSE <<>>
        report(missing_universal, missing_specific) ==
            LET score == 100 - 15 * Len(missing_universal) - 10 * Len(missing_specific)
            IN  [score |-> IF score < 0 THEN 0 ELSE score,
                 missing_sections |-> Len(missing_universal) + Len(missing_specific),
                 issues |-> missing_universal \o missing_specific,
                 severity |-> IF score < 50 THEN "high"
                              ELSE IF score < 75 THEN "medium" ELSE "low"]
        checked(t) == report(items_if(universal(t)), items_if(specific(t)))
    IN  checked(lower(content))

(***************************************************************************)
(* One call analyze_website_gaps(html_content, business_name,              *)
(* business_type); html_content is the variable of that name.  gap_pc is   *)
(* the position in lines 397-466 and gap_report is <<>> until the report   *)
(* is returned.  previous is <<>> during the first call for the markup and *)
(* holds the arguments and the report of that call during a second one.    *)
(***************************************************************************)
VARIABLES business_name, business_type, gap_pc, mobile, design, seo, performance,
          missing, overall_score, priority_gaps, recommendations, gap_report, previous

gapVars == <<business_name, business_type, gap_pc, mobile, design, seo, performance,
             missing, overall_score, priority_gaps, recommendations, gap_report,
             previous>>

\* at is "start" when analyze_website_gaps is called, "idle" when it is not
GapInit(at, names, types) ==
    /\ business_name \in names
    /\ business_type \in types
    /\ gap_pc = at
    /\ mobile = <<>>
    /\ design = <<>>
    /\ seo = <<>>
    /\ performance = <<>>
    /\ missing = <<>>
    /\ overall_score = 0
    /\ priority_gaps = <<>>
    /\ recommendations = <<>>
    /\ gap_report = <<>>
    /\ previous = <<>>

\* lines 397-402.  The mutant takes ten points off the SEO score of markup
\* that does not hold the business name.
RunChecks_mut ==
    /\ gap_pc = "start"
    /\ mobile' = check_mobile_responsiveness(html_content)
    /\ design' = check_design_modernity(html_content)
    /\ seo' = LET r == check_seo_basics(html_content, business_name)
               IN  IF Contains(lower(html_content), lower(business_name)) THEN r
                   ELSE [r EXCEPT !.score = IF r.score < 10 THEN 0 ELSE r.score - 10]
    /\ performance' = check_performance_indicators(html_content)
    /\ missing' = check_missing_sections(html_content, business_type)
    /\ gap_pc' = "checked"
    /\ UNCHANGED <<previous, business_name, business_type, overall_score, priority_gaps,
                   recommendations, gap_report>>

RunChecks ==
    /\ gap_pc = "start"
    /\ mobile' = check_mobile_responsiveness(html_content)
    /\ design' = check_design_modernity(html_content)
    /\ seo' = check_seo_basics(html_content, business_name)
    /\ performance' = check_performance_indicators(html_content)
    /\ missing' = check_missing_sections(html_content, business_type)
    /\ gap_pc' = "checked"
    /\ UNCHANGED <<previous, business_name, business_type, overall_score, priority_gaps,
                   recommendations, gap_report>>

\* lines 404-411: int() of the float sum.  The five scores are multiples of 5,
\* for which the float sum truncates to the same integer as the exact sum.
\* The mutant weighs mobile and design the other way round.
ScoreOverall_mut ==
    /\ gap_pc = "checked"
    /\ overall_score' = (mobile.score * 20 + design.score * 30 + seo.score * 25
                         + performance.score * 15 + missing.score * 10) \div 100
    /\ gap_pc' = "scored"
    /\ UNCHANGED <<previous, business_name, business_type, mobile, design, seo, performance,
                   missing, priority_gaps, recommendations, gap_report>>

ScoreOverall ==
    /\ gap_pc = "checked"
    /\ overall_score' = (mobile.score * 30 + design.score * 20 + seo.score * 25
                         + performance.score * 15 + missing.score * 10) \div 100
    /\ gap_pc' = "scored"
    /\ UNCHANGED <<previous, business_name, business_type, mobile, design, seo, performance,
                   missing, priority_gaps, recommendations, gap_report>>

\* lines 413-424.  The mutant lists mobile and design only when critical.
FindPriorityGaps_mut ==
    /\ gap_pc = "scored"
    /\ priority_gaps' = items_if(<<
           <<mobile.severity \in {"critical"}, "mobile_responsiveness">>,
           <<design.severity \in {"critical"}, "modern_design">>,
           <<seo.severity = "high", "seo_optimization">>,
           <<performance.severity = "high", "performance">>,
           <<missing.severity = "high", "key_sections">> >>)
    /\ gap_pc' = "prioritised"
    /\ UNCHANGED <<previous, business_name, business_type, mobile, design, seo, performance,
                   missing, overall_score, recommendations, gap_report>>

FindPriorityGaps ==
    /\ gap_pc = "scored"
    /\ priority_gaps' = items_if(<<
           <<mobile.severity \in {"critical", "high"}, "mobile_responsiveness">>,
           <<design.severity \in {"critical", "high"}, "modern_design">>,
           <<seo.severity = "high", "seo_optimization">>,
           <<performance.severity = "high", "performance">>,
           <<missing.severity = "high", "key_sections">> >>)
    /\ gap_pc' = "prioritised"
    /\ UNCHANGED <<previous, business_name, business_type, mobile, design, seo, performance,
                   missing, overall_score, recommendations, gap_report>>

\* lines 426-466.  The mutant omits the note on minor SEO enhancements.
Recommend_mut ==
    LET priority(gap) == gap \in SeqRange(priority_gaps)
        texts == items_if(<<
            <<priority("mobile_responsiveness"),
              "Implement mobile-first responsive design with proper viewport and media queries">>,
            <<priority("modern_design"),
              "Modernize design with flexbox/grid layouts, contemporary colors, and smooth animations">>,
            <<priority("seo_optimization"),
              "Add proper meta tags, structured headings, schema.org markup, and image alt text">>,
            <<priority("performance"),
              "Optimize loading speed with lazy loading, minification, and reduced external resources">>,
            <<priority("key_sections"),
              "Add missing sections important for " \o business_type \o " businesses">>,
            <<mobile.score < 100 /\ ~priority("mobile_responsiveness"),
              "Minor mobile responsiveness improvements needed">> >>)
    IN  /\ gap_pc = "prioritised"
        /\ recommendations' = texts
        /\ gap_report' = <<[overall_score |-> overall_score,
                            priority_gaps |-> priority_gaps,
                            mobile |-> mobile,
                            design |-> design,
                            seo |-> seo,
                            performance |-> performance,
                            missing_sections |-> missing,
                            recommendations |-> texts,
                            gap_count |-> Len(priority_gaps),
                            total_issues |-> Len(mobile.issues) + Len(design.issues)
                                             + Len(seo.issues) + Len(performance.issues)
                                             + Len(missing.issues)]>>
        /\ gap_pc' = "done"
        /\ UNCHANGED <<previous, business_name, business_type, mobile, design, seo, performance,
                       missing, overall_score, priority_gaps>>

Recommend ==
    LET priority(gap) == gap \in SeqRange(priority_gaps)
        texts == items_if(<<
            <<priority("mobile_responsiveness"),
              "Implement mobile-first responsive design with proper viewport and media queries">>,
            <<priority("modern_design"),
              "Modernize design with flexbox/grid layouts, contemporary colors, and smooth animations">>,
            <<priority("seo_optimization"),
              "Add proper meta tags, structured headings, schema.org markup, and image alt text">>,
            <<priority("performance"),
              "Optimize loading speed with lazy loading, minification, and reduced external resources">>,
            <<priority("key_sections"),
              "Add missing sections important for " \o business_type \o " businesses">>,
            <<mobile.score < 100 /\ ~priority("mobile_responsiveness"),
              "Minor mobile responsiveness improvements needed">>,
            <<seo.score < 100 /\ ~priority("seo_optimization"),
              "Minor SEO enhancements recommended">> >>)
    IN  /\ gap_pc = "prioritised"
        /\ recommendations' = texts
        /\ gap_report' = <<[overall_score |-> overall_score,
                            priority_gaps |-> priority_gaps,
                            mobile |-> mobile,
                            design |-> design,
                            seo |-> seo,
                            performance |-> performance,
                            missing_sections |-> missing,
                            recommendations |-> texts,
                            gap_count |-> Len(priority_gaps),
                            total_issues |-> Len(mobile.issues) + Len(design.issues)
                                             + Len(seo.issues) + Len(performance.issues)
                                             + Len(missing.issues)]>>
        /\ gap_pc' = "done"
        /\ UNCHANGED <<previous, business_name, business_type, mobile, design, seo, performance,
                       missing, overall_score, priority_gaps>>

\* analyze_website_gaps is called a second time for the same markup, with
\* arguments among names and types
AnalyzeAgain(names, types) ==
    /\ gap_pc = "done"
    /\ previous = <<>>
    /\ previous' = <<[business_name |-> business_name,
                      business_type |-> business_type,
                      report |-> gap_report[1]]>>
    /\ business_name' \in names
    /\ business_type' \in types
    /\ gap_pc' = "start"
    /\ mobile' = <<>>
    /\ design' = <<>>
    /\ seo' = <<>>
    /\ performance' = <<>>
    /\ missing' = <<>>
    /\ overall_score' = 0
    /\ priority_gaps' = <<>>
    /\ recommendations' = <<>>
    /\ gap_report' = <<>>

(***************************************************************************)
(* template_generator_premium.py : steps 1 to 4 of                         *)
(* generate_templates_for_business, lines 77-137.  business holds the      *)
(* fields read of the Business row (None is <<>>, the string x is <<x>>),  *)
(* scraped_data, extracted_content and gap_analysis are <<>> for the empty *)
(* dict and <<d>> for the dict d, and pipe_pc is the position between the  *)
(* calls: each call runs the actions of the component called.              *)
(***************************************************************************)
VARIABLES business, pipe_pc, scraped_data, raw_html, extracted_content, gap_analysis

pipeVars == <<business, pipe_pc, scraped_data, raw_html, extracted_content, gap_analysis>>

\* lines 77-80; at is "start" when generate_templates_for_business runs,
\* "idle" when it does not
PipeInit(at, businesses) ==
    /\ business \in businesses
    /\ pipe_pc = at
    /\ scraped_data = <<>>
    /\ raw_html = ""
    /\ extracted_content = <<>>
    /\ gap_analysis = <<>>

\* lines 81-84: scrape_business_website is called when the business has a URL
StartScrape ==
    /\ pipe_pc = "start"
    /\ pipe_pc' = "step1"
    /\ IF falsy(business.website_url)
       THEN UNCHANGED <<url, scrape_pc>>
       ELSE url' = business.website_url[1] /\ scrape_pc' = "fetch"
    /\ UNCHANGED <<response, html, soup, get_count, link_index, css_requests,
                   combined_css, scraped>>
    /\ UNCHANGED <<business, scraped_data, raw_html, extracted_content, gap_analysis>>
    /\ UNCHANGED <<classifierVars, colorVars, imageVars, contactVars, extVars, gapVars>>

\* lines 84-95: scraped_data and raw_html are taken from what the scrape
\* returned ({} and "" when there was none), and classify_business is called
CallClassifier ==
    /\ pipe_pc = "step1"
    /\ scrape_pc \in {"idle", "done"}
    /\ scraped_data' = scraped
    /\ raw_html' = IF scraped = <<>> THEN "" ELSE scraped[1].raw_html
    /\ args' = <<[category |-> IF falsy(business.category) THEN ""
                               ELSE business.category[1],
                  website_text |-> IF scraped = <<>> THEN ""
                                   ELSE scraped[1].text_content,
                  business_name |-> business.name]>>
    /\ pipe_pc' = "step2"
    /\ UNCHANGED <<hash_seed, pc, search_text, category_scores,
                   matched_keywords_by_category, primary_type, max_score, confidence,
                   secondary_tags, results>>
    /\ UNCHANGED <<business, extracted_content, gap_analysis>>
    /\ UNCHANGED <<colorVars, imageVars, contactVars, extVars, scrapeVars, gapVars>>

\* lines 96-111: classify_business has returned; extract_business_content is
\* called when raw_html is not empty.  The mutant calls it in any case.
CallExtractor_mut ==
    /\ pipe_pc = "step2"
    /\ pc = "done"
    /\ pipe_pc' = "step3"
    /\ html_content' = raw_html
    /\ img_html' = raw_html
    /\ base_url' = IF falsy(business.website_url) THEN ""
                   ELSE business.website_url[1]
    /\ business_phone' = business.phone
    /\ ext_pc' = "start"
    /\ UNCHANGED <<colors_pc, hex_matches, rgb_matches, css_matches, inline_matches,
                   colors, color_counts, filtered_colors, color_result>>
    /\ UNCHANGED <<images_pc, img_matches, img_index, images>>
    /\ UNCHANGED <<contact_pc, contact, logos, text_content, result>>
    /\ UNCHANGED <<business, scraped_data, raw_html, extracted_content, gap_analysis>>
    /\ UNCHANGED <<classifierVars, scrapeVars, gapVars>>

CallExtractor ==
    /\ pipe_pc = "step2"
    /\ pc = "done"
    /\ pipe_pc' = "step3"
    /\ IF raw_html # ""
       THEN /\ html_content' = raw_html
            /\ img_html' = raw_html
            /\ base_url' = business.website_url[1]
            /\ business_phone' = business.phone
            /\ ext_pc' = "start"
       ELSE UNCHANGED <<html_content, img_html, base_url, business_phone, ext_pc>>
    /\ UNCHANGED <<colors_pc, hex_matches, rgb_matches, css_matches, inline_matches,
                   colors, color_counts, filtered_colors, color_result>>
    /\ UNCHANGED <<images_pc, img_matches, img_index, images>>
    /\ UNCHANGED <<contact_pc, contact, logos, text_content, result>>
    /\ UNCHANGED <<business, scraped_data, raw_html, extracted_content, gap_analysis>>
    /\ UNCHANGED <<classifierVars, scrapeVars, gapVars>>

\* lines 107-130: extracted_content is what extract_business_content returned,
\* and stays {} when it was not called or raised; analyze_website_gaps is
\* called when raw_html is not empty, with the primary type of the
\* classification.  The mutant calls it only when the extraction returned.
CallAnalyzer_mut ==
    /\ pipe_pc = "step3"
    /\ ext_pc \in {"idle", "done", "raised"}
    /\ extracted_content' = IF ext_pc = "done" THEN result ELSE <<>>
    /\ pipe_pc' = "step4"
    /\ IF raw_html # "" /\ ext_pc = "done"
       THEN /\ business_name' = business.name
            /\ business_type' = results[1].primary_type
            /\ gap_pc' = "start"
       ELSE UNCHANGED <<business_name, business_type, gap_pc>>
    /\ UNCHANGED <<mobile, design, seo, performance, missing, overall_score,
                   priority_gaps, recommendations, gap_report, previous>>
    /\ UNCHANGED <<business, scraped_data, raw_html, gap_analysis>>
    /\ UNCHANGED <<classifierVars, colorVars, imageVars, contactVars, extVars, scrapeVars>>

CallAnalyzer ==
    /\ pipe_pc = "step3"
    /\ ext_pc \in {"idle", "done", "raised"}
    /\ extracted_content' = IF ext_pc = "done" THEN result ELSE <<>>
    /\ pipe_pc' = "step4"
    /\ IF raw_html # ""
       THEN /\ business_name' = business.name
            /\ business_type' = results[1].primary_type
            /\ gap_pc' = "start"
       ELSE UNCHANGED <<business_name, business_type, gap_pc>>
    /\ UNCHANGED <<mobile, design, seo, performance, missing, overall_score,
                   priority_gaps, recommendations, gap_report, previous>>
    /\ UNCHANGED <<business, scraped_data, raw_html, gap_analysis>>
    /\ UNCHANGED <<classifierVars, colorVars, imageVars, contactVars, extVars, scrapeVars>>

\* lines 125-137: gap_analysis is what analyze_website_gaps returned, and
\* stays {} when it was not called; the run goes on to the media step
TakeAnalysis ==
    /\ pipe_pc = "step4"
    /\ gap_pc \in {"idle", "done"}
    /\ gap_analysis' = gap_report
    /\ pipe_pc' = "media"
    /\ UNCHANGED <<business, scraped_data, raw_html, extracted_content>>
    /\ UNCHANGED <<classifierVars, colorVars, imageVars, contactVars, extVars,
                   scrapeVars, gapVars>>


\* ---------------------------------------------------------------------
\* The HTTP API over the database: businesses, accounts and templates
\* (app/routes/businesses.py, app/routes/auth.py, app/routes/templates.py,
\* app/services/business_service.py).  A table is the set of its rows; None
\* is the empty tuple and a query's first() an empty or one-row set.  The
\* handlers of businesses.py and auth.py contain no await and are served in
\* one step; a template request is suspended inside
\* generate_templates_for_business, and other requests are served meanwhile.
\* ---------------------------------------------------------------------
VARIABLES businesses, users, templates, uuid, tasks, reply, served

apiVars == <<businesses, users, templates, uuid, tasks, reply, served>>

\* http_exception_handler: the error code of an HTTPException's status
status_to_error_code(status) ==
    CASE status = 401 -> "UNAUTHORIZED"
      [] status = 403 -> "FORBIDDEN"
      [] status = 404 -> "NOT_FOUND"
      [] status = 422 -> "VALIDATION_ERROR"
      [] status = 429 -> "RATE_LIMIT_EXCEEDED"
      [] status = 500 -> "INTERNAL_ERROR"
      [] status = 503 -> "SERVICE_UNAVAILABLE"
      [] OTHER -> "INTERNAL_ERROR"

\* the response to one request: its status, the error code of the error
\* body, and what the body of a list or of a login holds
respond(request, business_id, status, total, items, tokens) ==
    [request |-> request, id |-> business_id, status |-> status,
     code |-> IF status >= 400 THEN status_to_error_code(status) ELSE "",
     total |-> total, items |-> items, tokens |-> tokens]

get_business_by_id(business_id) ==
    {b \in businesses : b.id = business_id /\ b.deleted_at = <<>>}

\* exclude_id 0 is None
get_business_by_website(website_url, exclude_id) ==
    {b \in businesses : /\ b.website_url = website_url
                        /\ b.deleted_at = <<>>
                        /\ (exclude_id # 0 => b.id # exclude_id)}

\* get_businesses without filters: the rows not soft-deleted
get_businesses == {b \in businesses : b.deleted_at = <<>>}

\* the unique index on businesses.website_url, which commit() enforces over
\* every row, soft-deleted ones included
url_taken(website_url, business_id) ==
    \E b \in businesses : b.website_url = website_url /\ b.id # business_id

\* the Argon2 hash is kept as the password it was made of
hash_password(password) == <<"argon2", password>>

verify_password(plain_password, hashed_password) ==
    hashed_password = hash_password(plain_password)

create_token(type, user) == [type |-> type, sub |-> user.id, email |-> user.email]

\* POST /api/businesses; website_url is str(business_data.website_url).
CreateBusiness(website_url) ==
    /\ served < MaxServed
    /\ uuid <= MaxUuid
    /\ IF get_business_by_website(website_url, 0) # {}
       THEN /\ reply' = respond("create", 0, 400, 0, {}, <<>>)
            /\ UNCHANGED <<businesses, uuid>>
       ELSE IF url_taken(website_url, 0)
       THEN \* IntegrityError out of commit(): the unhandled-exception handler
            /\ reply' = respond("create", 0, 500, 0, {}, <<>>)
            /\ UNCHANGED <<businesses, uuid>>
       ELSE /\ businesses' = businesses \union
                   {[id |-> uuid, website_url |-> website_url, deleted_at |-> <<>>]}
            /\ uuid' = uuid + 1
            /\ reply' = respond("create", uuid, 201, 0, {}, <<>>)
    /\ served' = served + 1
    /\ UNCHANGED <<users, templates, tasks>>

\* GET /api/businesses/{business_id}
GetBusiness(business_id) ==
    /\ served < MaxServed
    /\ reply' = respond("get", business_id,
                           IF get_business_by_id(business_id) = {} THEN 404 ELSE 200,
                           0, {}, <<>>)
    /\ served' = served + 1
    /\ UNCHANGED <<businesses, users, templates, uuid, tasks>>

\* GET /api/businesses with the default filters
ListBusinesses ==
    /\ served < MaxServed
    /\ reply' = respond("list", 0, 200, Cardinality(get_businesses),
                           {b.id : b \in get_businesses}, <<>>)
    /\ served' = served + 1
    /\ UNCHANGED <<businesses, users, templates, uuid, tasks>>

\* PUT /api/businesses/{business_id}; website_url "" is a body without one
UpdateBusiness(business_id, website_url) ==
    /\ served < MaxServed
    /\ IF get_business_by_id(business_id) = {}
       THEN /\ reply' = respond("put", business_id, 404, 0, {}, <<>>)
            /\ UNCHANGED businesses
       ELSE IF website_url # "" /\ get_business_by_website(website_url, business_id) # {}
       THEN /\ reply' = respond("put", business_id, 400, 0, {}, <<>>)
            /\ UNCHANGED businesses
       ELSE IF website_url # "" /\ url_taken(website_url, business_id)
       THEN /\ reply' = respond("put", business_id, 500, 0, {}, <<>>)
            /\ UNCHANGED businesses
       ELSE /\ businesses' =
                   {IF b.id = business_id /\ website_url # ""
                    THEN [b EXCEPT !.website_url = website_url] ELSE b : b \in businesses}
            /\ reply' = respond("put", business_id, 200, 0, {}, <<>>)
    /\ served' = served + 1
    /\ UNCHANGED <<users, templates, uuid, tasks>>

\* DELETE /api/businesses/{business_id}?hard_delete=...; a hard delete looks
\* the row up without the deleted_at filter and cascades to its templates.
\* The mutant's soft delete removes nothing from view.
DeleteBusiness_mut(business_id, hard_delete) ==
    /\ served < MaxServed
    /\ ~hard_delete
    /\ reply' = respond("delete", business_id,
                           IF get_business_by_id(business_id) = {} THEN 404 ELSE 204,
                           0, {}, <<>>)
    /\ served' = served + 1
    /\ UNCHANGED <<businesses, users, templates, uuid, tasks>>

DeleteBusiness(business_id, hard_delete) ==
    /\ served < MaxServed
    /\ IF hard_delete
       THEN IF \E b \in businesses : b.id = business_id
            THEN /\ businesses' = {b \in businesses : b.id # business_id}
                 /\ templates' = {t \in templates : t.business_id # business_id}
                 /\ reply' = respond("delete", business_id, 204, 0, {}, <<>>)
            ELSE /\ reply' = respond("delete", business_id, 404, 0, {}, <<>>)
                 /\ UNCHANGED <<businesses, templates>>
       ELSE IF get_business_by_id(business_id) # {}
            THEN /\ businesses' =
                        {IF b.id = business_id
                         THEN [b EXCEPT !.deleted_at = <<"utcnow">>] ELSE b : b \in businesses}
                 /\ reply' = respond("delete", business_id, 204, 0, {}, <<>>)
                 /\ UNCHANGED templates
            ELSE /\ reply' = respond("delete", business_id, 404, 0, {}, <<>>)
                 /\ UNCHANGED <<businesses, templates>>
    /\ served' = served + 1
    /\ UNCHANGED <<users, uuid, tasks>>

\* POST /api/auth/login
Login(email, password) ==
    /\ served < MaxServed
    /\ LET user == {u \in users : u.email = email}
       IN  IF user = {} \/ \E u \in user : ~verify_password(password, u.hashed_password)
           THEN reply' = respond("login", 0, 401, 0, {}, <<>>)
           ELSE \E u \in user :
                    IF ~u.is_active
                    THEN reply' = respond("login", u.id, 403, 0, {}, <<>>)
                    ELSE reply' = respond("login", u.id, 200, 0, {},
                                             <<create_token("access", u), create_token("refresh", u)>>)
    /\ served' = served + 1
    /\ UNCHANGED <<businesses, users, templates, uuid, tasks>>

\* the rows of the templates table of one business
templates_of(business_id) == {t \in templates : t.business_id = business_id}

Idle == [kind |-> "idle", business_id |-> 0, at |-> "idle", status |-> 0, templates |-> {}]

returned(task, status, ids) == [task EXCEPT !.at = "returned", !.status = status, !.templates = ids]

\* POST /api/businesses/{business_id}/templates/generate, up to the await
GenerateTemplates(t, business_id) ==
    /\ tasks[t].at = "idle"
    /\ LET task == [Idle EXCEPT !.kind = "generate", !.business_id = business_id]
       IN  tasks' = [tasks EXCEPT ![t] =
               IF get_business_by_id(business_id) = {} THEN returned(task, 404, {})
               ELSE IF Cardinality(templates_of(business_id)) > 0 THEN returned(task, 400, {})
               ELSE [task EXCEPT !.at = "generating"]]
    /\ UNCHANGED <<businesses, users, templates, uuid, reply, served>>

\* POST /api/businesses/{business_id}/templates/regenerate, up to the await:
\* delete_existing_templates deletes and commits.  The mutant keeps the rows.
RegenerateTemplates_mut(t, business_id) ==
    /\ tasks[t].at = "idle"
    /\ LET task == [Idle EXCEPT !.kind = "regenerate", !.business_id = business_id]
       IN  tasks' = [tasks EXCEPT ![t] =
               IF get_business_by_id(business_id) = {} THEN returned(task, 404, {})
               ELSE [task EXCEPT !.at = "generating"]]
    /\ UNCHANGED <<businesses, users, templates, uuid, reply, served>>

RegenerateTemplates(t, business_id) ==
    /\ tasks[t].at = "idle"
    /\ LET task == [Idle EXCEPT !.kind = "regenerate", !.business_id = business_id]
       IN  IF get_business_by_id(business_id) = {}
           THEN /\ tasks' = [tasks EXCEPT ![t] = returned(task, 404, {})]
                /\ UNCHANGED templates
           ELSE /\ templates' = templates \ templates_of(business_id)
                /\ tasks' = [tasks EXCEPT ![t] = [task EXCEPT !.at = "generating"]]
    /\ UNCHANGED <<businesses, users, uuid, reply, served>>

\* step 4 of POST /api/businesses/discover for one saved business whose score
\* is below 70, up to the await
DiscoverGenerate(t, business_id) ==
    /\ tasks[t].at = "idle"
    /\ get_business_by_id(business_id) # {}
    /\ LET task == [Idle EXCEPT !.kind = "discover", !.business_id = business_id]
       IN  tasks' = [tasks EXCEPT ![t] =
               IF templates_of(business_id) # {} THEN returned(task, 200, {})
               ELSE [task EXCEPT !.at = "generating"]]
    /\ UNCHANGED <<businesses, users, templates, uuid, reply, served>>

\* generate_templates_for_business resumes and ends: it raises
\* TemplateGenerationError (no API key, or any exception of its steps, the
\* insert for a business row that is gone included), or it adds one row with
\* variant_number 1 and commits.  The discover endpoint logs the error.
FinishGeneration(t, ok) ==
    /\ tasks[t].at = "generating"
    /\ uuid <= MaxUuid
    /\ IF ok /\ \E b \in businesses : b.id = tasks[t].business_id
       THEN /\ templates' = templates \union
                   {[id |-> uuid, business_id |-> tasks[t].business_id, variant_number |-> 1]}
            /\ uuid' = uuid + 1
            /\ tasks' = [tasks EXCEPT ![t] =
                   returned(@, IF @.kind = "generate" THEN 201 ELSE 200, {uuid})]
       ELSE /\ tasks' = [tasks EXCEPT ![t] =
                   returned(@, IF @.kind = "discover" THEN 200 ELSE 500, {})]
            /\ UNCHANGED <<templates, uuid>>
    /\ UNCHANGED <<businesses, users, reply, served>>

\* the database when the first request arrives; the rows it holds have ids
\* above MaxUuid, the rows added get 1, 2, ...
ApiInit(rows, accounts, tpls, ntasks) ==
    /\ businesses \in rows
    /\ users \in accounts
    /\ templates \in tpls
    /\ uuid = 1
    /\ tasks = [t \in 1..ntasks |-> Idle]
    /\ reply = respond("", 0, 0, 0, {}, <<>>)
    /\ served = 0
(***************************************************************************)
(* Properties of classify_business.                                        *)
(***************************************************************************)
LastArgs == args[Len(args)]
LastResult == results[Len(results)]
Returned == pc = "done" /\ Len(results) = Len(args)

ClassifierStages ==
    {"start", "combined", "scored", "selected", "tagged", "done"}

\* the scores as the specification states them: counted, not accumulated
matched_count(keywords, table) ==
    Cardinality({kw \in SeqRange(keywords) : occurs_in(kw, table)})

claimed_score(c, table, wtext) ==
    10 * matched_count(CATEGORY_KEYWORDS[c].primary, table)
    + 3 * matched_count(CATEGORY_KEYWORDS[c].secondary, table)
    + (IF wtext = "" THEN 0
       ELSE 5 * matched_count(CONFIDENCE_INDICATORS[c], table))

claimed_scores_on(table, wtext) ==
    [c \in TaxonomyTypes |-> claimed_score(c, table, wtext)]

claimed_scores(a) ==
    claimed_scores_on(
        substrings_upto(lower(a.category \o " " \o a.business_name \o " "
                              \o a.website_text), MaxKeywordLen),
        a.website_text)

winning_score_of(scores) ==
    CHOOSE v \in {scores[c] : c \in TaxonomyTypes} :
        \A c \in TaxonomyTypes : scores[c] <= v

winning_score(a) == winning_score_of(claimed_scores(a))

declared_at(c) == CHOOSE i \in DOMAIN CategoryOrder : CategoryOrder[i] = c

\* the curve of the specification, in hundredths
claimed_confidence(s) ==
    IF s >= 30 THEN Min(95, 70 + (s - 30))
    ELSE IF s >= 20 THEN 70 + 2 * (s - 20)
    ELSE IF s >= 10 THEN 50 + 2 * (s - 10)
    ELSE 5 * s

ScenarioA ==
    [category |-> "plumber", business_name |-> "Acme Plumbing",
     website_text |-> "24/7 emergency plumber, licensed and insured"]

ScenarioD == [category |-> "", business_name |-> "", website_text |-> ""]

GeneralResult ==
    [primary_type |-> "general", confidence |-> 0, secondary_tags |-> <<>>,
     matched_keywords |-> <<>>,
     warning |-> "Could not classify business type"]

\* C1: whatever the arguments (empty strings included), a call of
\* classify_business never raises: max() is never given an empty dict and
\* every dict lookup by primary_type is defined; and every returned result
\* has a primary_type that is one of the 12 taxonomy entries or "general" and
\* a confidence within [0,1] (0..100 hundredths).
C1_ReturnsTypeAndConfidenceInRange ==
    /\ Cardinality(TaxonomyTypes) = 12
    /\ pc \in ClassifierStages
    /\ pc \in {"scored", "selected", "tagged"} =>
           DOMAIN category_scores = TaxonomyTypes
    /\ pc \in {"selected", "tagged"} =>
           /\ primary_type \in DOMAIN category_scores
           /\ primary_type \in DOMAIN matched_keywords_by_category
    /\ \A k \in DOMAIN results :
           /\ results[k].primary_type \in TaxonomyTypes \cup {"general"}
           /\ results[k].confidence >= 0
           /\ results[k].confidence <= 100

\* a call with free text returned at the cap of the confidence curve
C1_Witness ==
    /\ Returned
    /\ LastArgs.website_text # ""
    /\ LastResult.primary_type \in TaxonomyTypes
    /\ LastResult.confidence = 95

\* C2: confidence is monotonically non-decreasing in the winning score: of two
\* classifications with winning scores s1 <= s2, the first has a confidence
\* that is at most the confidence of the second.
C2_ConfidenceMonotoneInScore ==
    Len(results) = 2 =>
        \A i, j \in 1..2 :
            winning_score(args[i]) <= winning_score(args[j])
                => results[i].confidence <= results[j].confidence

C3_holds(scores, winner) ==
    /\ category_scores = scores
    /\ winner \in TaxonomyTypes =>
           /\ \A c \in TaxonomyTypes : scores[c] <= scores[winner]
           /\ \A c \in TaxonomyTypes :
                  scores[c] = scores[winner] => declared_at(winner) <= declared_at(c)

\* C3: the score of each category is 10 per matched primary keyword plus 3 per
\* matched secondary keyword plus, only when website_text is non-empty, 5 per
\* matched confidence-indicator keyword; a returned taxonomy type is a category
\* of the highest score and, among the categories tied at it, the one declared
\* first; Scenario A returns home_services with confidence >= 0.5.
C3_ScoreWeightsAndFirstMaxWins ==
    Returned =>
        /\ C3_holds(claimed_scores(LastArgs), LastResult.primary_type)
        /\ LastArgs = ScenarioA =>
               /\ LastResult.primary_type = "home_services"
               /\ LastResult.confidence >= 50

\* a returned call with free text in which two categories tie at the highest
\* score and the one declared first was returned
C3_Witness ==
    /\ Returned
    /\ LastArgs.website_text # ""
    /\ LastResult.primary_type \in TaxonomyTypes
    /\ \E c \in TaxonomyTypes \ {LastResult.primary_type} :
           category_scores[c] = max_score

C5_GeneralFallbackIffAllZero ==
    Returned =>
        /\ (\A c \in TaxonomyTypes : category_scores[c] = 0) =>
               /\ LastResult = GeneralResult
               /\ "warning" \in DOMAIN LastResult
        /\ (\E c \in TaxonomyTypes : category_scores[c] > 0) =>
               /\ LastResult.primary_type \in TaxonomyTypes
               /\ "warning" \notin DOMAIN LastResult
        /\ LastArgs = ScenarioD => LastResult = GeneralResult

\* Scenario D returned the fallback
C5_Witness ==
    /\ Returned
    /\ LastArgs = ScenarioD
    /\ LastResult.primary_type = "general"

\* C6: two invocations of classify_business with identical arguments return
\* identical results, field for field, the element order of secondary_tags and
\* of matched_keywords included.
C6_SameArgsSameResult ==
    (Len(results) = 2 /\ args[1] = args[2]) => results[1] = results[2]

(***************************************************************************)
(* Properties of extract_colors_from_text.                                 *)
(***************************************************************************)
ColorsReturned == colors_pc = "done"

Returned_colors == {color_result[i] : i \in DOMAIN color_result}

Normalized_colors == {colors[i] : i \in DOMAIN colors}

Remaining_colors == {filtered_colors[i] : i \in DOMAIN filtered_colors}

position_of(c) == CHOOSE i \in DOMAIN color_result : color_result[i] = c

\* '#' followed by exactly six hexadecimal digits
well_formed(c) ==
    /\ Len(c) = 7
    /\ CharAt(c, 1) = "#"
    /\ \A i \in 2..7 : in_class(CharAt(c, i), ClassHex)

component(c, i) == 16 * hex_value(CharAt(c, i)) + hex_value(CharAt(c, i + 1))

near_white(c) == \A i \in {2, 4, 6} : component(c, i) > 250

near_black(c) == \A i \in {2, 4, 6} : component(c, i) < 5

\* C7: the returned list holds the most frequent remaining colors, most
\* frequent first: when A occurs strictly more often than B among the
\* normalized occurrences, B is not returned while A is omitted, and A comes
\* before B when both are returned.
C7_MostFrequentFirst ==
    ColorsReturned =>
        \A A \in Remaining_colors : \A B \in Remaining_colors :
            color_counts.count[A] > color_counts.count[B] =>
                /\ B \in Returned_colors => A \in Returned_colors
                /\ (A \in Returned_colors /\ B \in Returned_colors)
                       => position_of(A) < position_of(B)

\* C8: every returned value is '#' followed by exactly six hexadecimal
\* digits, whichever match path produced it.
C8_ReturnedValuesWellFormed ==
    ColorsReturned => \A c \in Returned_colors : well_formed(c)

ImagesReturned == images_pc = "done"

has_skip_word(src) ==
    \E w \in {"icon", "pixel", "track", "1x1", "spacer"} : Contains(lower(src), w)

\* the matches, among the first 15, whose src holds no skip word
Kept_matches ==
    {i \in 1..Min(15, Len(img_matches)) : ~has_skip_word(img_matches[i][1])}

same_url_twice == \E i \in DOMAIN images : \E j \in DOMAIN images :
                      i < j /\ images[i].url = images[j].url

\* C10 as stated: at most 15 entries, and no two returned descriptors have
\* the same resolved URL.
C10_CappedAndDeduplicated ==
    ImagesReturned => Len(images) <= 15 /\ ~same_url_twice

\* C10 as amended: at most 15 entries, one for each of the first 15 <img>
\* matches whose src holds no skip word, in markup order, each with its
\* resolved URL; the list is not de-duplicated, so two kept matches with the
\* same src give two entries with the same URL.
C10_CappedOnePerKeptMatch ==
    ImagesReturned =>
        /\ Len(images) <= 15
        /\ Len(images) = Cardinality(Kept_matches)
        /\ \A i \in Kept_matches :
               images[Cardinality({j \in Kept_matches : j <= i})].url
                   = urljoin(base_url, img_matches[i][1])
        /\ (\E i \in Kept_matches : \E j \in Kept_matches :
                i < j /\ img_matches[i][1] = img_matches[j][1]) => same_url_twice

C10_Witness ==
    /\ ImagesReturned
    /\ Len(img_matches) > 15
    /\ Len(images) = 15
    /\ same_url_twice

(***************************************************************************)
(* Claims about extract_contact_info.                                      *)
(***************************************************************************)
\* re.findall(phone_patterns[k], html_content) of the call
phones_found(k) ==
    findall([i \in 1..Len(html_content) |->
                match_at(html_content, i, phone_patterns[k])])

\* the first match of the first pattern, in list order, that matches; <<>>
\* when no pattern matches
first_match ==
    LET matching == {k \in DOMAIN phone_patterns : phones_found(k) # <<>>}
    IN  IF matching = {} THEN <<>>
        ELSE <<phones_found(CHOOSE k \in matching : \A j \in matching : k <= j)[1]>>

\* C12 as stated: when the markup matches a phone pattern the returned phone
\* is the first match of the first matching pattern, and the known phone is
\* returned only when no pattern matches.
C12_KnownPhoneOnlyFallback ==
    contact_pc = "done" =>
        contact.phone = IF first_match # <<>> THEN first_match ELSE business_phone

\* C12 amended: a known phone that is not empty is returned whatever the
\* markup holds; without one (None or the empty string) the returned phone is
\* the first match of the first matching pattern, and the known value itself
\* when no pattern matches.
C12_MarkupPhoneOnlyFallback ==
    contact_pc = "done" =>
        contact.phone = IF business_phone \notin {<<>>, <<"">>} THEN business_phone
                        ELSE IF first_match # <<>> THEN first_match
                        ELSE business_phone

\* a call with a known phone and markup that holds another phone number
C12_Witness ==
    /\ contact_pc = "done"
    /\ business_phone = <<"0800 111 222">>
    /\ first_match = <<"020 7946 0958">>
    /\ contact.phone = business_phone

(***************************************************************************)
(* Claims about extract_business_content.                                  *)
(***************************************************************************)
\* C11: when one of the five sub-extractions fails, extract_business_content
\* still completes and returns a result holding what the other four found:
\* no call ends with the exception of a sub-extraction and without a result.
C11_PartialFailureIsolated ==
    ext_pc = "raised" =>
        /\ result # <<>>
        /\ result[1].colors = color_result
        /\ result[1].contact = contact

(***************************************************************************)
(* Claims about scrape_business_website.                                   *)
(***************************************************************************)
\* C13: requests.get(self.url) is called at most once, and when that fetch
\* fails (timeout, DNS, HTTP or parse error: self.html stays None) the call
\* returns the empty scrape after exactly one GET and no stylesheet request.
C13_FailedFetchOneGetNoRetry ==
    /\ get_count <= 1
    /\ (scrape_pc = "done" /\ html = <<>>) =>
           (scraped = <<>> /\ get_count = 1 /\ css_requests = <<>>)

\* a call that has returned after a failed fetch
C13_Witness ==
    scrape_pc = "done" /\ html = <<>> /\ get_count = 1 /\ scraped = <<>>

\* the stylesheet URLs of the page, in document order: the hrefs of the first
\* five stylesheet links, resolved against the site URL, up to the first one
\* that cannot be resolved; links without href have none
sheet_urls ==
    LET tags == take(soup, 5)
        bad == {i \in DOMAIN tags : ~falsy(tags[i]) /\ urljoin_raises(tags[i][1])}
        stop == IF bad = {} THEN Len(tags) + 1
                ELSE CHOOSE i \in bad : \A j \in bad : i <= j
    IN  concat([i \in 1..(stop - 1) |->
                   IF falsy(tags[i]) THEN <<>> ELSE <<urljoin(url, tags[i][1])>>])

\* what the requests that succeeded contribute to combined_css
RECURSIVE css_of(_)
css_of(requests) ==
    IF requests = <<>> THEN ""
    ELSE (IF Head(requests).ok
          THEN "\n/* CSS from " \o Head(requests).url \o " */\n" \o "h1{color:#1a2b3c}"
          ELSE "")
         \o css_of(Tail(requests))

weighted_sum ==
    30 * gap_report[1].mobile.score + 20 * gap_report[1].design.score
    + 25 * gap_report[1].seo.score + 15 * gap_report[1].performance.score
    + 10 * gap_report[1].missing_sections.score

\* C16 as stated: overall_score of every gap report equals the weighted sum
\* 0.30*mobile + 0.20*design + 0.25*seo + 0.15*performance + 0.10*missing_sections
\* of the five sub-report scores, clamped to [0,100].
C16_EqualsWeightedSum ==
    gap_report # <<>> =>
        100 * gap_report[1].overall_score =
            IF weighted_sum < 0 THEN 0
            ELSE IF weighted_sum > 10000 THEN 10000 ELSE weighted_sum

\* C16 amended: overall_score of every gap report is the weighted sum of the
\* five sub-report scores with its fraction dropped: the largest integer not
\* above the sum, which lies in [0,100] without any clamp.
C16_TruncatedWeightedSum ==
    gap_report # <<>> =>
        /\ gap_report[1].overall_score \in 0..100
        /\ 100 * gap_report[1].overall_score <= weighted_sum
        /\ weighted_sum < 100 * gap_report[1].overall_score + 100

\* a report whose weighted sum is no integer
C16_Witness ==
    /\ gap_report # <<>>
    /\ weighted_sum % 100 # 0
    /\ gap_report[1].overall_score = weighted_sum \div 100

\* C17: for every markup and business type, each of the five sub-report scores
\* (mobile, design, seo, performance, missing_sections) and overall_score is an
\* integer in [0,100].
C17_ScoresInRange ==
    gap_report # <<>> =>
        /\ gap_report[1].mobile.score \in 0..100
        /\ gap_report[1].design.score \in 0..100
        /\ gap_report[1].seo.score \in 0..100
        /\ gap_report[1].performance.score \in 0..100
        /\ gap_report[1].missing_sections.score \in 0..100
        /\ gap_report[1].overall_score \in 0..100

\* a report on markup with more outdated than modern features, for which ten
\* per modern feature minus fifteen per outdated one is below zero
C17_Witness ==
    /\ gap_report # <<>>
    /\ 10 * gap_report[1].design.modern_indicators
           < 15 * gap_report[1].design.outdated_indicators
    /\ gap_report[1].design.score = 0
    /\ gap_report[1].overall_score > 0

\* C18: each sub-report's severity is one of critical/high/medium/low and is a
\* function of that sub-report's returned score alone, through a fixed
\* threshold table: mobile <40 critical, <70 high, otherwise medium; design <30
\* critical, <60 high, <80 medium, otherwise low; seo, performance and
\* missing_sections <50 high, <75 medium, otherwise low.
C18_SeverityFromScore ==
    gap_report # <<>> =>
        /\ \A sub \in {gap_report[1].mobile, gap_report[1].design, gap_report[1].seo,
                       gap_report[1].performance, gap_report[1].missing_sections} :
               sub.severity \in {"critical", "high", "medium", "low"}
        /\ gap_report[1].mobile.severity = "critical" <=> gap_report[1].mobile.score < 40
        /\ gap_report[1].mobile.severity = "high" <=> gap_report[1].mobile.score \in 40..69
        /\ gap_report[1].mobile.severity = "medium" <=> gap_report[1].mobile.score >= 70
        /\ gap_report[1].design.severity = "critical" <=> gap_report[1].design.score < 30
        /\ gap_report[1].design.severity = "high" <=> gap_report[1].design.score \in 30..59
        /\ gap_report[1].design.severity = "medium" <=> gap_report[1].design.score \in 60..79
        /\ gap_report[1].design.severity = "low" <=> gap_report[1].design.score >= 80
        /\ \A sub \in {gap_report[1].seo, gap_report[1].performance,
                       gap_report[1].missing_sections} :
               /\ sub.severity = "high" <=> sub.score < 50
               /\ sub.severity = "medium" <=> sub.score \in 50..74
               /\ sub.severity = "low" <=> sub.score >= 75

\* a report with a sub-report in each of the four tiers, the mobile one on
\* the lowest score of its tier
C18_Witness ==
    /\ gap_report # <<>>
    /\ gap_report[1].mobile.score \in {40, 70}
    /\ {gap_report[1].mobile.severity, gap_report[1].design.severity,
        gap_report[1].seo.severity, gap_report[1].performance.severity,
        gap_report[1].missing_sections.severity} = {"critical", "high", "medium", "low"}

\* the five sub-reports of the report returned, under their priority-gap names
named_checks ==
    {<<"mobile_responsiveness", gap_report[1].mobile>>,
     <<"modern_design", gap_report[1].design>>,
     <<"seo_optimization", gap_report[1].seo>>,
     <<"performance", gap_report[1].performance>>,
     <<"key_sections", gap_report[1].missing_sections>>}

\* C19: priority_gaps contains exactly one entry for each sub-report whose
\* severity is high or critical and no entry for any other sub-report, and
\* gap_count equals its length.
C19_PriorityGapsFromSeverity ==
    gap_report # <<>> =>
        /\ \A c \in named_checks :
               Cardinality({k \in DOMAIN gap_report[1].priority_gaps :
                                gap_report[1].priority_gaps[k] = c[1]})
                   = IF c[2].severity \in {"high", "critical"} THEN 1 ELSE 0
        /\ SeqRange(gap_report[1].priority_gaps) \subseteq {c[1] : c \in named_checks}
        /\ gap_report[1].gap_count = Len(gap_report[1].priority_gaps)

\* a report with a critical and a high sub-report listed and a medium and a
\* low one left out
C19_Witness ==
    /\ gap_report # <<>>
    /\ gap_report[1].gap_count \in 2..4
    /\ {c[2].severity : c \in named_checks} = {"critical", "high", "medium", "low"}

\* C20 as stated: recommendations contains the fixed remediation text for
\* every priority gap and, for every one of the five checks that scored below
\* 100 but is not a priority gap, a soft minor-improvement note; it contains no
\* entry for a check that scored 100.  Every check below 100 then has its one
\* entry.
C20_EntryForEveryCheckBelow100 ==
    gap_report # <<>> =>
        Len(gap_report[1].recommendations)
            = Cardinality({c \in named_checks : c[2].score < 100})

\* C20 amended: recommendations contains the fixed remediation text for every
\* priority gap and for no other check, and a soft note only for the mobile
\* and the SEO check, each when it scored below 100 and is not a priority
\* gap; design, performance and missing sections have no soft note.
C20_FixedTextsAndTwoNotes ==
    gap_report # <<>> =>
        LET recs == SeqRange(gap_report[1].recommendations)
            gaps == SeqRange(gap_report[1].priority_gaps)
            noted(name, sub) == sub.score < 100 /\ name \notin gaps
        IN  /\ "Implement mobile-first responsive design with proper viewport and media queries"
                   \in recs <=> "mobile_responsiveness" \in gaps
            /\ "Modernize design with flexbox/grid layouts, contemporary colors, and smooth animations"
                   \in recs <=> "modern_design" \in gaps
            /\ "Add proper meta tags, structured headings, schema.org markup, and image alt text"
                   \in recs <=> "seo_optimization" \in gaps
            /\ "Optimize loading speed with lazy loading, minification, and reduced external resources"
                   \in recs <=> "performance" \in gaps
            /\ "Add missing sections important for " \o business_type \o " businesses"
                   \in recs <=> "key_sections" \in gaps
            /\ "Minor mobile responsiveness improvements needed" \in recs
                   <=> noted("mobile_responsiveness", gap_report[1].mobile)
            /\ "Minor SEO enhancements recommended" \in recs
                   <=> noted("seo_optimization", gap_report[1].seo)
            /\ Len(gap_report[1].recommendations)
                   = Len(gap_report[1].priority_gaps)
                     + Cardinality({c \in {<<"mobile_responsiveness", gap_report[1].mobile>>,
                                           <<"seo_optimization", gap_report[1].seo>>} :
                                        noted(c[1], c[2])})

\* a report with the SEO note and with a performance score below 100 that is
\* neither a priority gap nor noted
C20_Witness ==
    /\ gap_report # <<>>
    /\ "Minor SEO enhancements recommended" \in SeqRange(gap_report[1].recommendations)
    /\ gap_report[1].performance.score < 100
    /\ "performance" \notin SeqRange(gap_report[1].priority_gaps)
    /\ Len(gap_report[1].recommendations)
           < Cardinality({c \in named_checks : c[2].score < 100})

\* C21: the mobile sub-report score is 100 minus 40 if no viewport meta tag,
\* minus 30 if no media query, minus 20 if no mobile framework or keyword
\* signal; any markup with neither a viewport meta tag nor an @media rule has
\* mobile score <= 30 and severity critical.
C21_MobilePenalties ==
    gap_report # <<>> =>
        LET m == gap_report[1].mobile
            markup == lower(html_content)
        IN  /\ m.score = 100 - (IF m.has_viewport THEN 0 ELSE 40)
                             - (IF m.has_media_queries THEN 0 ELSE 30)
                             - (IF m.has_mobile_framework THEN 0 ELSE 20)
            /\ m.has_viewport => Contains(markup, "viewport")
            /\ m.has_media_queries => Contains(markup, "@media")
            /\ ~Contains(markup, "viewport") /\ ~Contains(markup, "@media") =>
                   m.score <= 30 /\ m.severity = "critical"

\* a report on markup with the word mobile in it and neither a viewport tag
\* nor a media query: score 30, the highest such markup can have
C21_Witness ==
    /\ gap_report # <<>>
    /\ ~Contains(lower(html_content), "viewport")
    /\ ~Contains(lower(html_content), "@media")
    /\ gap_report[1].mobile.has_mobile_framework
    /\ gap_report[1].mobile.score = 30
    /\ gap_report[1].mobile.severity = "critical"

\* C22: the design sub-report score equals 10 times the number of detected
\* modern features minus 15 times the number of outdated features (table-based
\* layout, frames, Flash references, marquee, font tags, more than 50 inline
\* style attributes), with the net value clamped to [0,100].  The outdated
\* features are counted here as the markup has them.
C22_ScoreFromOutdatedFeatures ==
    gap_report # <<>> =>
        LET markup == lower(html_content)
            styles == {i \in 1..Len(markup) :
                           lit(markup, i, "style=") # 0 /\ CharAt(markup, i + 6) \in Quotes}
            outdated == Len(items_if(<<
                <<Contains(markup, "<table"), "table-based layout">>,
                <<Contains(markup, "<frame"), "frames">>,
                <<Contains(markup, ".swf") \/ Contains(markup, "flash"), "Flash references">>,
                <<Contains(markup, "<marquee"), "marquee">>,
                <<Contains(markup, "<font"), "font tags">>,
                <<Cardinality(styles) > 50, "inline style attributes">> >>))
            net == 10 * gap_report[1].design.modern_indicators - 15 * outdated
        IN  gap_report[1].design.score =
                IF net < 0 THEN 0 ELSE IF net > 100 THEN 100 ELSE net

\* C27: severity low is unreachable for the mobile and design sub-reports:
\* the design score never exceeds 70 for any markup (at most 7 modern features
\* at 10 points each), and a page with no detected mobile issue (mobile score
\* 100) is still reported with severity medium.
C27_LowUnreachable ==
    gap_report # <<>> =>
        /\ gap_report[1].mobile.severity # "low"
        /\ gap_report[1].design.severity # "low"
        /\ gap_report[1].design.modern_indicators <= 7
        /\ gap_report[1].design.score <= 70
        /\ gap_report[1].mobile.score = 100 =>
               gap_report[1].mobile.issues = <<>> /\ gap_report[1].mobile.severity = "medium"

\* a report on markup with all seven modern features, no outdated one and no
\* mobile issue
C27_Witness ==
    /\ gap_report # <<>>
    /\ gap_report[1].design.modern_indicators = 7
    /\ gap_report[1].design.score = 70
    /\ gap_report[1].design.severity = "medium"
    /\ gap_report[1].mobile.score = 100
    /\ gap_report[1].mobile.severity = "medium"

\* the business types for which check_missing_sections has sections of their own
typed == {"restaurant", "home_services", "professional"}

\* C28 as stated: for a fixed markup, two runs of analyze_website_gaps that
\* differ only in business_name return identical reports, and two runs that
\* differ only in business_type return identical mobile, design, seo and
\* performance sub-reports; business_type can change only missing_sections
\* (and what is derived from it), and only when it is restaurant,
\* home_services or professional.
C28_NoninterferenceAsStated ==
    previous # <<>> /\ gap_report # <<>> =>
        /\ business_type = previous[1].business_type => gap_report[1] = previous[1].report
        /\ gap_report[1].mobile = previous[1].report.mobile
        /\ gap_report[1].design = previous[1].report.design
        /\ gap_report[1].seo = previous[1].report.seo
        /\ gap_report[1].performance = previous[1].report.performance
        /\ business_type \notin typed /\ previous[1].business_type \notin typed =>
               gap_report[1] = previous[1].report

\* C28 amended: runs that differ only in business_name return identical
\* reports; runs that differ in business_type return identical mobile, design,
\* seo and performance sub-reports, and when neither type is restaurant,
\* home_services or professional also identical missing_sections, scores and
\* priority gaps; the recommendation for key_sections names the business
\* type, so the recommendations differ whenever the types differ and
\* key_sections is a priority gap.
C28_Noninterference ==
    previous # <<>> /\ gap_report # <<>> =>
        LET r == gap_report[1]
            p == previous[1].report
            text(type) == "Add missing sections important for " \o type \o " businesses"
        IN  /\ business_type = previous[1].business_type => r = p
            /\ r.mobile = p.mobile
            /\ r.design = p.design
            /\ r.seo = p.seo
            /\ r.performance = p.performance
            /\ business_type \notin typed /\ previous[1].business_type \notin typed =>
                   /\ r.missing_sections = p.missing_sections
                   /\ r.overall_score = p.overall_score
                   /\ r.priority_gaps = p.priority_gaps
                   /\ r.gap_count = p.gap_count
                   /\ r.total_issues = p.total_issues
                   /\ Len(r.recommendations) = Len(p.recommendations)
                   /\ \A k \in DOMAIN r.recommendations :
                          \/ r.recommendations[k] = p.recommendations[k]
                          \/ /\ r.recommendations[k] = text(business_type)
                             /\ p.recommendations[k] = text(previous[1].business_type)
            /\ business_type # previous[1].business_type
                   /\ "key_sections" \in SeqRange(r.priority_gaps)
                   /\ "key_sections" \in SeqRange(p.priority_gaps) =>
                   r.recommendations # p.recommendations

\* two runs for the same markup, one as general and one as retail, with another
\* name, whose reports differ in the recommendation for key_sections alone
C28_Witness ==
    /\ previous # <<>>
    /\ gap_report # <<>>
    /\ business_name # previous[1].business_name
    /\ previous[1].business_type = "general"
    /\ business_type = "retail"
    /\ gap_report[1].missing_sections = previous[1].report.missing_sections
    /\ gap_report[1].recommendations # previous[1].report.recommendations

(***************************************************************************)
(* Claims about the pipeline run (template_generator_premium.py)           *)
(***************************************************************************)
\* the one request for the page was made and failed: scrape_all returned {}
fetch_failed == get_count = 1 /\ scrape_pc = "done" /\ scraped = <<>>

extractorVars == <<colorVars, imageVars, contactVars, extVars>>

serves(request) == served' # served /\ reply'.request = request

\* C24 as stated: after a soft delete every later GET and PUT of the
\* business and every later DELETE of it returns 404, the business is in no
\* list, and the total of the list dropped by exactly one at the delete.
C24_DeletedStaysInvisible ==
    [][\A b \in businesses :
          /\ b.deleted_at # <<>> /\ reply'.id = b.id
             /\ (serves("get") \/ serves("put") \/ serves("delete"))
                => reply'.status = 404
          /\ b.deleted_at # <<>> /\ serves("list") => b.id \notin reply'.items
          /\ b.deleted_at = <<>> /\ reply'.id = b.id /\ serves("delete") /\ reply'.status = 204
                => Cardinality(get_businesses') = Cardinality(get_businesses) - 1]_apiVars

\* C24, amended: a soft-deleted business is never restored; GET and PUT of it
\* return 404; a DELETE of it returns 404 and leaves the row, unless it is a
\* hard delete, which returns 204 and removes the row; it is in no list; and
\* the total of the list drops by exactly one at the delete of a live
\* business.
C24_SoftDeletedStaysInvisible ==
    [][\A b \in businesses :
          /\ b.deleted_at # <<>> => \A c \in businesses' : c.id = b.id => c = b
          /\ b.deleted_at # <<>> /\ reply'.id = b.id /\ (serves("get") \/ serves("put"))
                => reply'.status = 404 /\ UNCHANGED businesses
          /\ b.deleted_at # <<>> /\ reply'.id = b.id /\ serves("delete")
                => \/ reply'.status = 404 /\ UNCHANGED businesses
                   \/ reply'.status = 204 /\ businesses' = businesses \ {b}
          /\ b.deleted_at # <<>> /\ serves("list") => b.id \notin reply'.items
          /\ serves("list") => reply'.total = Cardinality(reply'.items)
          /\ b.deleted_at = <<>> /\ reply'.id = b.id /\ serves("delete") /\ reply'.status = 204
                => /\ get_business_by_id(b.id)' = {}
                   /\ Cardinality(get_businesses') = Cardinality(get_businesses) - 1]_apiVars

\* business 101, live when the first request arrived, soft-deleted since, and
\* a PUT of it answered with 404
C24_Witness ==
    /\ reply.request = "put"
    /\ reply.id = 101
    /\ reply.status = 404
    /\ \E b \in businesses : b.id = 101 /\ b.deleted_at # <<>>

\* C25: a create request that finds its website_url taken is answered with
\* 409 and DUPLICATE_RESOURCE and creates no record; no two businesses share a
\* website_url.
C25_DuplicateRejectedWith409 ==
    /\ reply.request = "create" /\ reply.status # 201
          => reply.status = 409 /\ reply.code = "DUPLICATE_RESOURCE"
    /\ \A a, b \in businesses : a.website_url = b.website_url => a = b

\* C26: a login for an inactive account with the correct password is answered
\* with 401 and carries no token.
C26_InactiveLoginIs401 ==
    reply.request = "login" /\ (\E u \in users : u.id = reply.id /\ ~u.is_active)
        => reply.status = 401 /\ reply.tokens = <<>>

\* C29: regenerate has deleted, and committed the delete of, every template
\* of the business when generation starts; a generation that fails adds and
\* restores nothing; one that succeeds adds exactly the row it returns.  So a
\* regenerate request served on its own leaves no template at all when its
\* generation failed and only the newly generated one when it succeeded.
C29_DeleteCommittedFirst ==
    /\ [][\A t \in 1..MaxTasks :
             /\ tasks[t].at = "idle" /\ tasks'[t].kind = "regenerate"
                /\ tasks'[t].at = "generating"
                   => \A x \in templates' : x.business_id # tasks'[t].business_id
             /\ tasks[t].at = "generating" /\ tasks'[t].at = "returned"
                /\ tasks'[t].status = 500
                   => UNCHANGED templates /\ tasks'[t].templates = {}
             /\ tasks[t].kind = "regenerate" /\ tasks[t].at = "generating"
                /\ tasks'[t].at = "returned" /\ tasks'[t].status = 200
                   => /\ tasks'[t].templates = {uuid}
                      /\ \A x \in templates : x.id # uuid
                      /\ templates' = templates \union
                             {[id |-> uuid, business_id |-> tasks[t].business_id,
                               variant_number |-> 1]}]_apiVars
    /\ [](\A t \in 1..MaxTasks :
             /\ tasks[t].kind = "regenerate"
             /\ tasks[t].at = "returned"
             /\ served = 0
             /\ \A o \in 1..MaxTasks : o # t => tasks[o] = Idle
             => /\ tasks[t].status \in {200, 404, 500}
                /\ tasks[t].status = 500 => templates_of(tasks[t].business_id) = {}
                /\ tasks[t].status = 200 =>
                       /\ Cardinality(templates_of(tasks[t].business_id)) = 1
                       /\ {x.id : x \in templates_of(tasks[t].business_id)} = tasks[t].templates)

\* a generate request returned the template it made, a later regenerate of
\* the same business failed in generation, and the business has no template
C29_Witness ==
    /\ served = 0
    /\ \E g, r \in 1..MaxTasks :
          /\ tasks[g].kind = "generate" /\ tasks[g].status = 201
          /\ tasks[g].business_id = 101 /\ tasks[g].templates # {}
          /\ tasks[r].kind = "regenerate" /\ tasks[r].status = 500
          /\ tasks[r].business_id = 101
          /\ \A o \in 1..MaxTasks : o \notin {g, r} => tasks[o] = Idle
    /\ templates = {}

\* C30: whatever the interleaving of generate requests and of the discover
\* endpoint's generation on one business, the business never holds two
\* templates with the same variant_number.
C30_OneTemplatePerVariant ==
    \A a, b \in templates :
        a.business_id = b.business_id /\ a.variant_number = b.variant_number => a = b
(***************************************************************************)
(* Specifications: one per function; the other functions are not called    *)
(* (each stays at its entry, on empty arguments).                          *)
(***************************************************************************)
vars == <<classifierVars, colorVars, imageVars, contactVars, extVars, scrapeVars, gapVars, pipeVars, apiVars>>

ClassifierNext ==
    \/ BuildSearchText /\ UNCHANGED <<colorVars, imageVars, contactVars, extVars, scrapeVars, gapVars, pipeVars, apiVars>>
    \/ ScoreCategories /\ UNCHANGED <<colorVars, imageVars, contactVars, extVars, scrapeVars, gapVars, pipeVars, apiVars>>
    \/ ReturnGeneral /\ UNCHANGED <<colorVars, imageVars, contactVars, extVars, scrapeVars, gapVars, pipeVars, apiVars>>
    \/ SelectPrimary /\ UNCHANGED <<colorVars, imageVars, contactVars, extVars, scrapeVars, gapVars, pipeVars, apiVars>>
    \/ DetectSecondaryTags /\ UNCHANGED <<colorVars, imageVars, contactVars, extVars, scrapeVars, gapVars, pipeVars, apiVars>>
    \/ ReturnResult /\ UNCHANGED <<colorVars, imageVars, contactVars, extVars, scrapeVars, gapVars, pipeVars, apiVars>>
    \/ CallAgain /\ UNCHANGED <<colorVars, imageVars, contactVars, extVars, scrapeVars, gapVars, pipeVars, apiVars>>

ClassifierSpec ==
    /\ ClassifierInit(ClassifierInputs, 0..MaxHashSeed)
    /\ ColorsInit({""})
    /\ ImagesInit({""}, {""})
    /\ ContactInit({<<>>})
    /\ ExtractInit("idle")
    /\ ScrapeInit("idle", {""}, {""})
    /\ GapInit("idle", {""}, {""})
    /\ ApiInit({{}}, {{}}, {{}}, 0)
    /\ PipeInit("idle", {[name |-> "", category |-> <<>>, website_url |-> <<>>, phone |-> <<>>]})
    /\ [][ClassifierNext]_vars

ColorsNext ==
    \/ FindColorMatches /\ UNCHANGED <<classifierVars, imageVars, contactVars, extVars, scrapeVars, gapVars, pipeVars, apiVars>>
    \/ ProcessColorMatches /\ UNCHANGED <<classifierVars, imageVars, contactVars, extVars, scrapeVars, gapVars, pipeVars, apiVars>>
    \/ FilterColors /\ UNCHANGED <<classifierVars, imageVars, contactVars, extVars, scrapeVars, gapVars, pipeVars, apiVars>>
    \/ ReturnMostCommon /\ UNCHANGED <<classifierVars, imageVars, contactVars, extVars, scrapeVars, gapVars, pipeVars, apiVars>>

ColorsSpec ==
    /\ ClassifierInit({[category |-> "", business_name |-> "", website_text |-> ""]}, {0})
    /\ ColorsInit(MarkupInputs)
    /\ ImagesInit({""}, {""})
    /\ ContactInit({<<>>})
    /\ ExtractInit("idle")
    /\ ScrapeInit("idle", {""}, {""})
    /\ GapInit("idle", {""}, {""})
    /\ ApiInit({{}}, {{}}, {{}}, 0)
    /\ PipeInit("idle", {[name |-> "", category |-> <<>>, website_url |-> <<>>, phone |-> <<>>]})
    /\ [][ColorsNext]_vars

ImagesNext ==
    \/ FindImages /\ UNCHANGED <<classifierVars, colorVars, contactVars, extVars, scrapeVars, gapVars, pipeVars, apiVars>>
    \/ SkipImage /\ UNCHANGED <<classifierVars, colorVars, contactVars, extVars, scrapeVars, gapVars, pipeVars, apiVars>>
    \/ AppendImage /\ UNCHANGED <<classifierVars, colorVars, contactVars, extVars, scrapeVars, gapVars, pipeVars, apiVars>>
    \/ ReturnImages /\ UNCHANGED <<classifierVars, colorVars, contactVars, extVars, scrapeVars, gapVars, pipeVars, apiVars>>
    \/ RaiseImage /\ UNCHANGED <<classifierVars, colorVars, contactVars, extVars, scrapeVars, gapVars, pipeVars, apiVars>>

ImagesSpec ==
    /\ ClassifierInit({[category |-> "", business_name |-> "", website_text |-> ""]}, {0})
    /\ ColorsInit({""})
    /\ ImagesInit(ImgMarkupInputs, BaseUrlInputs)
    /\ ContactInit({<<>>})
    /\ ExtractInit("idle")
    /\ ScrapeInit("idle", {""}, {""})
    /\ GapInit("idle", {""}, {""})
    /\ ApiInit({{}}, {{}}, {{}}, 0)
    /\ PipeInit("idle", {[name |-> "", category |-> <<>>, website_url |-> <<>>, phone |-> <<>>]})
    /\ [][ImagesNext]_vars

ContactNext ==
    ExtractContact /\ UNCHANGED <<classifierVars, colorVars, imageVars, extVars, scrapeVars, gapVars, pipeVars, apiVars>>

ContactSpec ==
    /\ ClassifierInit({[category |-> "", business_name |-> "", website_text |-> ""]}, {0})
    /\ ColorsInit(ContactMarkupInputs)
    /\ ImagesInit({""}, {""})
    /\ ContactInit(PhoneInputs)
    /\ ExtractInit("idle")
    /\ ScrapeInit("idle", {""}, {""})
    /\ GapInit("idle", {""}, {""})
    /\ ApiInit({{}}, {{}}, {{}}, 0)
    /\ PipeInit("idle", {[name |-> "", category |-> <<>>, website_url |-> <<>>, phone |-> <<>>]})
    /\ [][ContactNext]_vars

ExtractNext ==
    \/ FindColorMatches /\ UNCHANGED <<classifierVars, imageVars, contactVars, extVars, scrapeVars, gapVars, pipeVars, apiVars>>
    \/ ProcessColorMatches /\ UNCHANGED <<classifierVars, imageVars, contactVars, extVars, scrapeVars, gapVars, pipeVars, apiVars>>
    \/ FilterColors /\ UNCHANGED <<classifierVars, imageVars, contactVars, extVars, scrapeVars, gapVars, pipeVars, apiVars>>
    \/ ReturnMostCommon /\ UNCHANGED <<classifierVars, imageVars, contactVars, extVars, scrapeVars, gapVars, pipeVars, apiVars>>
    \/ ExtractLogos /\ UNCHANGED <<classifierVars, colorVars, imageVars, contactVars, scrapeVars, gapVars, pipeVars, apiVars>>
    \/ ExtractText /\ UNCHANGED <<classifierVars, colorVars, imageVars, contactVars, scrapeVars, gapVars, pipeVars, apiVars>>
    \/ /\ ext_pc = "text"
       /\ ExtractContact
       /\ ext_pc' = "contact"
       /\ UNCHANGED <<classifierVars, colorVars, imageVars, logos, text_content, result, scrapeVars, gapVars, pipeVars, apiVars>>
    \/ /\ ext_pc = "contact"
       /\ FindImages
       /\ UNCHANGED <<classifierVars, colorVars, contactVars, extVars, scrapeVars, gapVars, pipeVars, apiVars>>
    \/ /\ ext_pc = "contact"
       /\ SkipImage
       /\ UNCHANGED <<classifierVars, colorVars, contactVars, extVars, scrapeVars, gapVars, pipeVars, apiVars>>
    \/ /\ ext_pc = "contact"
       /\ AppendImage
       /\ UNCHANGED <<classifierVars, colorVars, contactVars, extVars, scrapeVars, gapVars, pipeVars, apiVars>>
    \/ /\ ext_pc = "contact"
       /\ ReturnImages
       /\ UNCHANGED <<classifierVars, colorVars, contactVars, extVars, scrapeVars, gapVars, pipeVars, apiVars>>
    \/ /\ ext_pc = "contact"
       /\ RaiseImage
       /\ ext_pc' = "raised"
       /\ UNCHANGED <<classifierVars, colorVars, contactVars, logos, text_content, result, scrapeVars, gapVars, pipeVars, apiVars>>
    \/ BuildResult /\ UNCHANGED <<classifierVars, colorVars, imageVars, contactVars, scrapeVars, gapVars, pipeVars, apiVars>>

ExtractSpec ==
    /\ ClassifierInit({[category |-> "", business_name |-> "", website_text |-> ""]}, {0})
    /\ ColorsInit(ExtractInputs)
    /\ ImagesInit(ExtractInputs, {"https://x.com"})
    /\ img_html = html_content
    /\ ContactInit(PhoneInputs)
    /\ ExtractInit("start")
    /\ ScrapeInit("idle", {""}, {""})
    /\ GapInit("idle", {""}, {""})
    /\ ApiInit({{}}, {{}}, {{}}, 0)
    /\ PipeInit("idle", {[name |-> "", category |-> <<>>, website_url |-> <<>>, phone |-> <<>>]})
    /\ [][ExtractNext]_vars

ScrapeNext ==
    \/ FetchWebsite /\ UNCHANGED <<classifierVars, colorVars, imageVars, contactVars, extVars, gapVars, pipeVars, apiVars>>
    \/ FetchCss /\ UNCHANGED <<classifierVars, colorVars, imageVars, contactVars, extVars, gapVars, pipeVars, apiVars>>
    \/ ReturnScrape /\ UNCHANGED <<classifierVars, colorVars, imageVars, contactVars, extVars, gapVars, pipeVars, apiVars>>

ScrapeSpec ==
    /\ ClassifierInit({[category |-> "", business_name |-> "", website_text |-> ""]}, {0})
    /\ ColorsInit({""})
    /\ ImagesInit({""}, {""})
    /\ ContactInit({<<>>})
    /\ ExtractInit("idle")
    /\ ScrapeInit("fetch", BaseUrlInputs, ScrapePages)
    /\ GapInit("idle", {""}, {""})
    /\ ApiInit({{}}, {{}}, {{}}, 0)
    /\ PipeInit("idle", {[name |-> "", category |-> <<>>, website_url |-> <<>>, phone |-> <<>>]})
    /\ [][ScrapeNext]_vars

GapNext ==
    \/ RunChecks /\ UNCHANGED <<classifierVars, colorVars, imageVars, contactVars, extVars, scrapeVars, pipeVars, apiVars>>
    \/ ScoreOverall /\ UNCHANGED <<classifierVars, colorVars, imageVars, contactVars, extVars, scrapeVars, pipeVars, apiVars>>
    \/ FindPriorityGaps /\ UNCHANGED <<classifierVars, colorVars, imageVars, contactVars, extVars, scrapeVars, pipeVars, apiVars>>
    \/ Recommend /\ UNCHANGED <<classifierVars, colorVars, imageVars, contactVars, extVars, scrapeVars, pipeVars, apiVars>>

GapSpec ==
    /\ ClassifierInit({[category |-> "", business_name |-> "", website_text |-> ""]}, {0})
    /\ ColorsInit(UNION {FragmentsOf(
           {"<style>@media (max-width:600px){.a{display:flex}} .b{transition:all;color:rgb(1,2,3)}</style>",
            "<title>Acme Plumbing Leeds</title><h1>Acme</h1><h2>About us</h2>",
            "<meta name='description' content='Emergency plumbers in Leeds'> schema.org <img loading='lazy' src='a.png' alt='menu'>",
            "<form><input name='email'></form><button>Book now</button> reviews of our mobile app",
            "<font size=2><marquee>sale</marquee></font><!-- web design -->",
            "<meta name='viewport' content='width=device-width'><div class='tailwind' style='display:grid;font-family:lato;animation:x 1s'>var(--c)</div>"},
           "", n) : n \in 0..MaxGapFrags})
    /\ ImagesInit({""}, {""})
    /\ ContactInit({<<>>})
    /\ ExtractInit("idle")
    /\ ScrapeInit("idle", {""}, {""})
    /\ GapInit("start", {"", "Acme Plumbing"},
               {"general", "restaurant", "home_services", "professional"})
    /\ ApiInit({{}}, {{}}, {{}}, 0)
    /\ PipeInit("idle", {[name |-> "", category |-> <<>>, website_url |-> <<>>, phone |-> <<>>]})
    /\ [][GapNext]_vars

\* two calls for the same markup
GapAgainNext ==
    \/ RunChecks /\ UNCHANGED <<classifierVars, colorVars, imageVars, contactVars, extVars, scrapeVars, pipeVars, apiVars>>
    \/ ScoreOverall /\ UNCHANGED <<classifierVars, colorVars, imageVars, contactVars, extVars, scrapeVars, pipeVars, apiVars>>
    \/ FindPriorityGaps /\ UNCHANGED <<classifierVars, colorVars, imageVars, contactVars, extVars, scrapeVars, pipeVars, apiVars>>
    \/ Recommend /\ UNCHANGED <<classifierVars, colorVars, imageVars, contactVars, extVars, scrapeVars, pipeVars, apiVars>>
    \/ /\ AnalyzeAgain({"", "Acme Plumbing"},
                       {"general", "restaurant", "home_services", "professional", "retail"})
       /\ UNCHANGED <<classifierVars, colorVars, imageVars, contactVars, extVars, scrapeVars, pipeVars, apiVars>>

GapAgainSpec ==
    /\ ClassifierInit({[category |-> "", business_name |-> "", website_text |-> ""]}, {0})
    /\ ColorsInit(UNION {FragmentsOf(
           {"<title>Acme Plumbing Leeds</title><h1>Acme</h1><h2>About us</h2>",
            "<form><input name='email'></form><button>Book now</button> reviews of our mobile app",
            "<p>Licensed plumbers, emergency cover, our menu of services and results</p>"},
           "", n) : n \in 0..MaxAgainFrags})
    /\ ImagesInit({""}, {""})
    /\ ContactInit({<<>>})
    /\ ExtractInit("idle")
    /\ ScrapeInit("idle", {""}, {""})
    /\ GapInit("start", {"Acme Plumbing"}, {"general", "restaurant"})
    /\ ApiInit({{}}, {{}}, {{}}, 0)
    /\ PipeInit("idle", {[name |-> "", category |-> <<>>, website_url |-> <<>>, phone |-> <<>>]})
    /\ [][GapAgainNext]_vars

\* one run of steps 1 to 4: the calls of generate_templates_for_business and,
\* between them, the steps of the component called.
PipelineNext ==
    \/ StartScrape /\ UNCHANGED apiVars
    \/ CallClassifier /\ UNCHANGED apiVars
    \/ CallExtractor /\ UNCHANGED apiVars
    \/ CallAnalyzer /\ UNCHANGED apiVars
    \/ TakeAnalysis /\ UNCHANGED apiVars
    \/ FetchWebsite /\ UNCHANGED <<classifierVars, colorVars, imageVars, contactVars, extVars, gapVars, pipeVars, apiVars>>
    \/ FetchCss /\ UNCHANGED <<classifierVars, colorVars, imageVars, contactVars, extVars, gapVars, pipeVars, apiVars>>
    \/ ReturnScrape /\ UNCHANGED <<classifierVars, colorVars, imageVars, contactVars, extVars, gapVars, pipeVars, apiVars>>
    \/ pipe_pc = "step2" /\ BuildSearchText /\ UNCHANGED <<colorVars, imageVars, contactVars, extVars, scrapeVars, gapVars, pipeVars, apiVars>>
    \/ pipe_pc = "step2" /\ ScoreCategories /\ UNCHANGED <<colorVars, imageVars, contactVars, extVars, scrapeVars, gapVars, pipeVars, apiVars>>
    \/ pipe_pc = "step2" /\ ReturnGeneral /\ UNCHANGED <<colorVars, imageVars, contactVars, extVars, scrapeVars, gapVars, pipeVars, apiVars>>
    \/ pipe_pc = "step2" /\ SelectPrimary /\ UNCHANGED <<colorVars, imageVars, contactVars, extVars, scrapeVars, gapVars, pipeVars, apiVars>>
    \/ pipe_pc = "step2" /\ DetectSecondaryTags /\ UNCHANGED <<colorVars, imageVars, contactVars, extVars, scrapeVars, gapVars, pipeVars, apiVars>>
    \/ pipe_pc = "step2" /\ ReturnResult /\ UNCHANGED <<colorVars, imageVars, contactVars, extVars, scrapeVars, gapVars, pipeVars, apiVars>>
    \/ ext_pc = "start" /\ FindColorMatches /\ UNCHANGED <<classifierVars, imageVars, contactVars, extVars, scrapeVars, gapVars, pipeVars, apiVars>>
    \/ ext_pc = "start" /\ ProcessColorMatches /\ UNCHANGED <<classifierVars, imageVars, contactVars, extVars, scrapeVars, gapVars, pipeVars, apiVars>>
    \/ ext_pc = "start" /\ FilterColors /\ UNCHANGED <<classifierVars, imageVars, contactVars, extVars, scrapeVars, gapVars, pipeVars, apiVars>>
    \/ ext_pc = "start" /\ ReturnMostCommon /\ UNCHANGED <<classifierVars, imageVars, contactVars, extVars, scrapeVars, gapVars, pipeVars, apiVars>>
    \/ ExtractLogos /\ UNCHANGED <<classifierVars, colorVars, imageVars, contactVars, scrapeVars, gapVars, pipeVars, apiVars>>
    \/ ExtractText /\ UNCHANGED <<classifierVars, colorVars, imageVars, contactVars, scrapeVars, gapVars, pipeVars, apiVars>>
    \/ /\ ext_pc = "text"
       /\ ExtractContact
       /\ ext_pc' = "contact"
       /\ UNCHANGED <<classifierVars, colorVars, imageVars, logos, text_content, result, scrapeVars, gapVars, pipeVars, apiVars>>
    \/ ext_pc = "contact" /\ FindImages /\ UNCHANGED <<classifierVars, colorVars, contactVars, extVars, scrapeVars, gapVars, pipeVars, apiVars>>
    \/ ext_pc = "contact" /\ SkipImage /\ UNCHANGED <<classifierVars, colorVars, contactVars, extVars, scrapeVars, gapVars, pipeVars, apiVars>>
    \/ ext_pc = "contact" /\ AppendImage /\ UNCHANGED <<classifierVars, colorVars, contactVars, extVars, scrapeVars, gapVars, pipeVars, apiVars>>
    \/ ext_pc = "contact" /\ ReturnImages /\ UNCHANGED <<classifierVars, colorVars, contactVars, extVars, scrapeVars, gapVars, pipeVars, apiVars>>
    \/ /\ ext_pc = "contact"
       /\ RaiseImage
       /\ ext_pc' = "raised"
       /\ UNCHANGED <<classifierVars, colorVars, contactVars, logos, text_content, result, scrapeVars, gapVars, pipeVars, apiVars>>
    \/ BuildResult /\ UNCHANGED <<classifierVars, colorVars, imageVars, contactVars, scrapeVars, gapVars, pipeVars, apiVars>>
    \/ RunChecks /\ UNCHANGED <<classifierVars, colorVars, imageVars, contactVars, extVars, scrapeVars, pipeVars, apiVars>>
    \/ ScoreOverall /\ UNCHANGED <<classifierVars, colorVars, imageVars, contactVars, extVars, scrapeVars, pipeVars, apiVars>>
    \/ FindPriorityGaps /\ UNCHANGED <<classifierVars, colorVars, imageVars, contactVars, extVars, scrapeVars, pipeVars, apiVars>>
    \/ Recommend /\ UNCHANGED <<classifierVars, colorVars, imageVars, contactVars, extVars, scrapeVars, pipeVars, apiVars>>

\* The steps are those of one coroutine, which runs on as long as it has a step
\* to take: the steps of generate_templates_for_business and of
\* classify_business, on which the end of a run without markup depends, are
\* taken when they can be.
PipelineSpec ==
    /\ ClassifierInit({[category |-> "", business_name |-> "", website_text |-> ""]}, {0})
    /\ ColorsInit({""})
    /\ ImagesInit({""}, {""})
    /\ ContactInit({<<>>})
    /\ ExtractInit("idle")
    /\ ScrapeInit("idle", {""},
                  {"<link rel=\"stylesheet\" href=\"/a.css\"><p>Emergency plumber in Leeds</p><img src='a.png'><img src='pixel.gif'>",
                   "<title>Joe's</title><img src=\"http://[x\">",
                   "<a class=\"logo\" href=\"/\"> <img src=\"//[cdn/l.png\"></a>"})
    /\ GapInit("idle", {""}, {""})
    /\ ApiInit({{}}, {{}}, {{}}, 0)
    /\ PipeInit("start",
                {[name |-> "Joe's Pizza", category |-> <<"Restaurant">>,
                  website_url |-> <<"https://x.com">>, phone |-> <<>>],
                 [name |-> "Acme", category |-> <<>>,
                  website_url |-> <<"https://x.com">>, phone |-> <<"0800 111 222">>],
                 [name |-> "Leeds Plumbing", category |-> <<"">>,
                  website_url |-> <<>>, phone |-> <<>>]})
    /\ [][PipelineNext]_vars
    /\ WF_vars(/\ StartScrape \/ CallClassifier \/ CallExtractor \/ CallAnalyzer \/ TakeAnalysis
               /\ UNCHANGED apiVars)
    /\ WF_vars(/\ pipe_pc = "step2"
               /\ \/ BuildSearchText \/ ScoreCategories \/ ReturnGeneral
                  \/ SelectPrimary \/ DetectSecondaryTags \/ ReturnResult
               /\ UNCHANGED <<colorVars, imageVars, contactVars, extVars, scrapeVars, gapVars, pipeVars, apiVars>>)

\* requests to the business and login endpoints, served one after another
ApiNext ==
    \/ /\ \E website_url \in {"https://a.co.uk/", "https://b.co.uk/"} : CreateBusiness(website_url)
       /\ UNCHANGED <<classifierVars, colorVars, imageVars, contactVars, extVars, scrapeVars, gapVars, pipeVars>>
    \/ /\ \E business_id \in {1, 101, 102} : GetBusiness(business_id)
       /\ UNCHANGED <<classifierVars, colorVars, imageVars, contactVars, extVars, scrapeVars, gapVars, pipeVars>>
    \/ /\ ListBusinesses
       /\ UNCHANGED <<classifierVars, colorVars, imageVars, contactVars, extVars, scrapeVars, gapVars, pipeVars>>
    \/ /\ \E business_id \in {1, 101, 102}, website_url \in {"", "https://b.co.uk/"} :
              UpdateBusiness(business_id, website_url)
       /\ UNCHANGED <<classifierVars, colorVars, imageVars, contactVars, extVars, scrapeVars, gapVars, pipeVars>>
    \/ /\ \E business_id \in {1, 101, 102}, hard_delete \in BOOLEAN :
              DeleteBusiness(business_id, hard_delete)
       /\ UNCHANGED <<classifierVars, colorVars, imageVars, contactVars, extVars, scrapeVars, gapVars, pipeVars>>
    \/ /\ \E email \in {"a@x.co.uk", "b@x.co.uk", "c@x.co.uk"}, password \in {"pw1", "pw2"} :
              Login(email, password)
       /\ UNCHANGED <<classifierVars, colorVars, imageVars, contactVars, extVars, scrapeVars, gapVars, pipeVars>>

ApiSpec ==
    /\ ClassifierInit({[category |-> "", business_name |-> "", website_text |-> ""]}, {0})
    /\ ColorsInit({""})
    /\ ImagesInit({""}, {""})
    /\ ContactInit({<<>>})
    /\ ExtractInit("idle")
    /\ ScrapeInit("idle", {""}, {""})
    /\ GapInit("idle", {""}, {""})
    /\ ApiInit({{},
             {[id |-> 101, website_url |-> "https://a.co.uk/", deleted_at |-> <<>>]},
             {[id |-> 101, website_url |-> "https://a.co.uk/", deleted_at |-> <<>>],
              [id |-> 102, website_url |-> "https://b.co.uk/", deleted_at |-> <<"utcnow">>]}},
            {{[id |-> 901, email |-> "a@x.co.uk", hashed_password |-> hash_password("pw1"),
               is_active |-> TRUE],
              [id |-> 902, email |-> "b@x.co.uk", hashed_password |-> hash_password("pw2"),
               is_active |-> FALSE]}},
            {{}}, 0)
    /\ PipeInit("idle", {[name |-> "", category |-> <<>>, website_url |-> <<>>, phone |-> <<>>]})
    /\ [][ApiNext]_vars

\* template requests on the businesses of the database, in any interleaving
\* of their two halves, and deletes of a business meanwhile
TemplateNext ==
    \/ /\ \E t \in 1..MaxTasks, business_id \in {101, 102} : GenerateTemplates(t, business_id)
       /\ UNCHANGED <<classifierVars, colorVars, imageVars, contactVars, extVars, scrapeVars, gapVars, pipeVars>>
    \/ /\ \E t \in 1..MaxTasks, business_id \in {101, 102} : RegenerateTemplates(t, business_id)
       /\ UNCHANGED <<classifierVars, colorVars, imageVars, contactVars, extVars, scrapeVars, gapVars, pipeVars>>
    \/ /\ \E t \in 1..MaxTasks, business_id \in {101, 102} : DiscoverGenerate(t, business_id)
       /\ UNCHANGED <<classifierVars, colorVars, imageVars, contactVars, extVars, scrapeVars, gapVars, pipeVars>>
    \/ /\ \E t \in 1..MaxTasks, ok \in BOOLEAN : FinishGeneration(t, ok)
       /\ UNCHANGED <<classifierVars, colorVars, imageVars, contactVars, extVars, scrapeVars, gapVars, pipeVars>>
    \/ /\ \E hard_delete \in BOOLEAN : DeleteBusiness(101, hard_delete)
       /\ UNCHANGED <<classifierVars, colorVars, imageVars, contactVars, extVars, scrapeVars, gapVars, pipeVars>>

TemplateSpec ==
    /\ ClassifierInit({[category |-> "", business_name |-> "", website_text |-> ""]}, {0})
    /\ ColorsInit({""})
    /\ ImagesInit({""}, {""})
    /\ ContactInit({<<>>})
    /\ ExtractInit("idle")
    /\ ScrapeInit("idle", {""}, {""})
    /\ GapInit("idle", {""}, {""})
    /\ ApiInit({{[id |-> 101, website_url |-> "https://a.co.uk/", deleted_at |-> <<>>],
              [id |-> 102, website_url |-> "https://b.co.uk/", deleted_at |-> <<"utcnow">>]}},
            {{}},
            {{}, {[id |-> 201, business_id |-> 101, variant_number |-> 1]}},
            MaxTasks)
    /\ PipeInit("idle", {[name |-> "", category |-> <<>>, website_url |-> <<>>, phone |-> <<>>]})
    /\ [][TemplateNext]_vars

====
